---- MODULE Spec2Model ----
(***************************************************************************)
(* Presence + real-time messaging + quota enforcement of the dating        *)
(* backend: the chat namespace (sockets/chat.namespace.js), the HTTP chat  *)
(* controller, the call usage controller, the call-token controller and    *)
(* the presence namespace, as state machines over the shared stores        *)
(* (Subscription and Chat collections, the in-memory presence maps).       *)
(* Every await of a handler is a scheduling point: a handler is a process  *)
(* whose steps interleave with the steps of the other handlers.            *)
(***************************************************************************)
EXTENDS Integers, Sequences, FiniteSets, TLC

\* ------------------------------------------------------------------ bounds
NumProcs == 2
\* number of handler invocations (requests / socket events) in one run
NumSockets == 3
\* number of physical connections opened in one run
MaxAllowed == 1
\* largest messagesAllowed / messagesPerDay a plan is given in Init
MaxSeconds == 1
\* largest audio/video allowance (seconds) a plan is given in Init
MaxIdLen == 2
\* longest user id string generateRoomId is given

\* --------------------------------------------------------------- constants
Null == 0 - 1
\* JS null / undefined of a numeric field
Users == {"u1", "u2"}
UserSeq == <<"u1", "u2">>
NoUser == "none"
Procs == 1..NumProcs
Sockets == 1..NumSockets
SubIds == 1..Len(UserSeq)
CallTypes == {"audio", "video"}
Rooms == {"r1"}
NoRoom == "noroom"

GraceMs == 30000
\* setTimeout(..., 30000) of the chat namespace's disconnect handler
TickMs == GraceMs \div 2
\* the clock advances in steps of 15 s
MaxNow == 3 * TickMs
\* the clock stops advancing here

VARIABLES
  bypass,       \* process.env.BYPASS_SUBSCRIPTION_CHECKS === 'true'
  now,          \* new Date(), in ms
  subs,         \* the Subscription collection: _id -> document (userId = NoUser: no document)
  membership,   \* the User collection: userId -> user.membership (a Subscription _id, 0: unset)
  chats,        \* the Chat collection, in insertion order
  calls,        \* the Call collection: zegoData.roomId -> participants' userIds
  proc,         \* the handler invocations in flight or finished
  sock,         \* the physical connections
  onlineUsers,  \* chat.namespace.js onlineUsers: userId -> entry (present = FALSE: no key)
  userRooms,    \* chat.namespace.js userRooms: userId -> Set of roomIds (present = FALSE: no key)
  timers,       \* pending grace timers of the chat namespace: userId and due time
  pOnline,      \* PresenceNamespace.onlineUsers: the userIds that are keys
  pSockets,     \* PresenceNamespace.userSockets: userId -> set of socket ids
  bcast         \* the presence broadcasts emitted so far, each with its time

vars == <<bypass, now, subs, membership, chats, calls, proc, sock, onlineUsers, userRooms,
          timers, pOnline, pSockets, bcast>>
presenceVars == <<sock, onlineUsers, userRooms, timers, pOnline, pSockets, bcast>>
storeVars == <<subs, membership, chats, calls>>

Max(a, b) == IF a >= b THEN a ELSE b

\* ------------------------------------------------------ Subscription store
NoSub == [userId |-> NoUser, endDate |-> 0, messagesAllowed |-> Null,
          messagesUsedTotal |-> 0, totalMessagesUsed |-> 0, messagesPerDay |-> Null,
          audioTimeAllowed |-> 0, audioTimeUsedTotal |-> 0, totalAudioUsed |-> 0,
          videoTimeAllowed |-> 0, videoTimeUsedTotal |-> 0, totalVideoUsed |-> 0]

\* A document as createOrReplaceSubscription writes it: the allowances copied
\* from the plan, every usage counter 0. messagesPerDay is the legacy limit
\* of the populated plan (planId.limits.messagesPerDay). The call allowances are
\* numbers: an allowance the plan leaves unspecified is stored as 0.
NewSub(u, endDate, msgs, perDay, audio, video) ==
  [userId |-> u, endDate |-> endDate, messagesAllowed |-> msgs,
   messagesUsedTotal |-> 0, totalMessagesUsed |-> 0, messagesPerDay |-> perDay,
   audioTimeAllowed |-> audio, audioTimeUsedTotal |-> 0, totalAudioUsed |-> 0,
   videoTimeAllowed |-> video, videoTimeUsedTotal |-> 0, totalVideoUsed |-> 0]

SubsOf(u) == {i \in SubIds : subs[i].userId = u}

\* Subscription.findOne({ userId }): the first document in natural order, 0 for null
FindOneSub(u) ==
  IF SubsOf(u) = {} THEN 0
  ELSE CHOOSE i \in SubsOf(u) : \A j \in SubsOf(u) : i <= j

\* now > subscription.endDate
SubExpired(id) == now > subs[id].endDate

\* ------------------------------------------------------------- Chat store
\* Chat.findOne({ $or: [{from, to}, {from: to, to: from}] }): index, 0 for null
ChatsOf(a, b) ==
  {i \in 1..Len(chats) : \/ chats[i].from = a /\ chats[i].to = b
                         \/ chats[i].from = b /\ chats[i].to = a}

FindChat(a, b) ==
  IF ChatsOf(a, b) = {} THEN 0
  ELSE CHOOSE i \in ChatsOf(a, b) : \A j \in ChatsOf(a, b) : i <= j

\* Chat.create({ from, to, messages: [] }); clearedAt defaults to an empty Map
\* (Null: the user has no entry)
NewChat(a, b) ==
  [from |-> a, to |-> b, messages |-> <<>>, clearedAt |-> [u \in Users |-> Null]]

\* chat.messages.push(m); chat.save(): a $push on the stored document
PushMessage(i, m) == [chats EXCEPT ![i].messages = Append(@, m)]

\* ------------------------------------------- room ids (chat.namespace.js)
\* user ids are strings: sequences of UTF-16 code units, here of '_', 'a', 'b'
CodeUnits == {95, 97, 98}
IdsOfLen(n) == [1..n -> CodeUnits]
Ids == UNION {IdsOfLen(n) : n \in 0..MaxIdLen}

\* the comparison of Array.prototype.sort without a comparator: x sorts before
\* y when String(x) < String(y), code unit by code unit, a proper prefix first
RECURSIVE StrLess(_, _)
StrLess(x, y) ==
  IF y = <<>> THEN FALSE
  ELSE IF x = <<>> THEN TRUE
  ELSE IF Head(x) # Head(y) THEN Head(x) < Head(y)
  ELSE StrLess(Tail(x), Tail(y))

\* [userId1, userId2].sort(): a stable sort, the pair is swapped only when the
\* second sorts before the first
SortedIds(userId1, userId2) ==
  IF StrLess(userId2, userId1) THEN <<userId2, userId1>> ELSE <<userId1, userId2>>

\* the code units of "chat_" and of "_"
ChatPrefix == <<99, 104, 97, 116, 95>>
Underscore == <<95>>

\* the room id built from the ids in the order given
generateRoomIdUnsorted(userId1, userId2) ==
  ChatPrefix \o userId1 \o Underscore \o userId2

\* generateRoomId: `chat_${sortedIds[0]}_${sortedIds[1]}`
generateRoomId(userId1, userId2) ==
  ChatPrefix \o SortedIds(userId1, userId2)[1] \o Underscore \o SortedIds(userId1, userId2)[2]

\* the users' ids as strings ("a", "b") and the socket.io rooms of the chat
\* namespace: the personal room `user_${userId}` and the pair's chat room
IdOf(u) == IF u = UserSeq[1] THEN <<97>> ELSE <<98>>
PersonalRoom(u) == <<117, 115, 101, 114, 95>> \o IdOf(u)
ChatRoom(a, b) == generateRoomId(IdOf(a), IdOf(b))

\* ------------------------------------------------------ handler processes
IdleProc == [kind |-> "idle", pc |-> "idle", from |-> NoUser, to |-> NoUser,
             ctype |-> "none", room |-> NoRoom, call |-> NoRoom, sid |-> 0,
             remainingSec |-> 0, secs |-> 0, parts |-> {},
             doc |-> 0, used |-> 0, chat |-> 0, result |-> "none",
             before |-> 0, debited |-> FALSE, persisted |-> FALSE, emitted |-> {},
             membership |-> 0, existing |-> 0, plan |-> 0, at |-> Null,
             received |-> [k \in Sockets |-> 0], recipientLive |-> FALSE]

\* a slot no invocation uses in this run
OffProc == [IdleProc EXCEPT !.kind = "off", !.pc = "off"]

\* the message subdocument invocation p pushes: createdAt is new Date()
NewMessage(p) == [from |-> proc[p].from, to |-> proc[p].to, id |-> p, createdAt |-> now]

\* invocations are interchangeable: they are started in the order of their ids
CanStart(p) == /\ proc[p].kind = "idle"
               /\ IF p = 1 THEN TRUE ELSE proc[p - 1].kind # "idle"

Finish(p, r) == [proc[p] EXCEPT !.pc = "done", !.result = r]

\* onlineUsers.get(u) is truthy / onlineUsers.has(u)
InOnlineUsers(u) == onlineUsers[u].present

\* the sender's stored counter, 0 without a document (what `before` records)
StoredUsed(u) == IF FindOneSub(u) = 0 THEN 0 ELSE subs[FindOneSub(u)].messagesUsedTotal

\* ------------------------------------------ HTTP sendMessage (chat.controller)
\* validateBothUsersSubscription of chat.controller.js
HttpValidateBoth(u1, u2) ==
  IF bypass THEN "valid"
  ELSE IF FindOneSub(u1) = 0 \/ FindOneSub(u2) = 0 THEN "SUBSCRIPTION_REQUIRED"
  ELSE IF SubExpired(FindOneSub(u1)) \/ SubExpired(FindOneSub(u2))
       THEN "SUBSCRIPTION_REQUIRED"
  ELSE "valid"

\* remainingMessages of sendMessage: null for unlimited
HttpRemaining(id) ==
  IF subs[id].messagesAllowed # Null
  THEN Max(0, subs[id].messagesAllowed - subs[id].messagesUsedTotal)
  ELSE Null

\* steps 1-3 of sendMessage on the sender's document: the response that ends the
\* request, or "ok". Without a document and with the bypass on, reading
\* subscription.messagesAllowed throws and the catch answers 500.
HttpQuotaCheck(from) ==
  LET id == FindOneSub(from) IN
  IF ~bypass /\ id = 0 THEN "NO_SUBSCRIPTION"
  ELSE IF ~bypass /\ SubExpired(id) THEN "SUBSCRIPTION_EXPIRED"
  ELSE IF id = 0 THEN "500"
  ELSE IF ~bypass /\ HttpRemaining(id) # Null /\ HttpRemaining(id) <= 0
       THEN "MESSAGE_LIMIT_EXCEEDED"
  ELSE "ok"

\* lines 51-70: input validation, then validateBothUsersSubscription
HttpValidate(p, from, to, valid) ==
  /\ CanStart(p)
  /\ LET q == [IdleProc EXCEPT !.kind = "http", !.from = from, !.to = to,
                               !.before = StoredUsed(from)] IN
     proc' = [proc EXCEPT ![p] =
       IF ~valid THEN [q EXCEPT !.pc = "done", !.result = "400"]
       ELSE IF HttpValidateBoth(from, to) # "valid"
            THEN [q EXCEPT !.pc = "done", !.result = HttpValidateBoth(from, to)]
       ELSE [q EXCEPT !.pc = "h_fetch"]]
  /\ UNCHANGED <<bypass, now, storeVars, presenceVars>>

\* lines 76-106: fetch the sender's subscription and check the total limit
HttpFetch(p) ==
  /\ proc[p].pc = "h_fetch"
  /\ LET r == HttpQuotaCheck(proc[p].from)
         id == FindOneSub(proc[p].from) IN
     proc' = [proc EXCEPT ![p] =
       IF r # "ok" THEN Finish(p, r)
       ELSE [@ EXCEPT !.pc = "h_findChat", !.doc = id,
                      !.used = subs[id].messagesUsedTotal]]
  /\ UNCHANGED <<bypass, now, storeVars, presenceVars>>

\* line 109: Chat.findOne
HttpFindChat(p) ==
  /\ proc[p].pc = "h_findChat"
  /\ LET c == FindChat(proc[p].from, proc[p].to) IN
     proc' = [proc EXCEPT ![p].chat = c,
                          ![p].pc = IF c = 0 THEN "h_createChat" ELSE "h_saveChat"]
  /\ UNCHANGED <<bypass, now, storeVars, presenceVars>>

\* line 117: Chat.create({ from, to, messages: [] })
HttpCreateChat(p) ==
  /\ proc[p].pc = "h_createChat"
  /\ chats' = Append(chats, NewChat(proc[p].from, proc[p].to))
  /\ proc' = [proc EXCEPT ![p].chat = Len(chats) + 1, ![p].pc = "h_saveChat"]
  /\ UNCHANGED <<bypass, now, subs, membership, calls, presenceVars>>

\* lines 120-130: push the message and save the chat; a failed save throws and
\* the catch answers 500
HttpSaveChat(p, ok) ==
  /\ proc[p].pc = "h_saveChat"
  /\ IF ok
     THEN /\ chats' = PushMessage(proc[p].chat,
                        NewMessage(p))
          /\ proc' = [proc EXCEPT ![p].persisted = TRUE,
                                  ![p].pc = IF bypass THEN "h_emit" ELSE "h_saveSub"]
     ELSE /\ chats' = chats
          /\ proc' = [proc EXCEPT ![p] = Finish(p, "500")]
  /\ UNCHANGED <<bypass, now, subs, membership, calls, presenceVars>>

\* lines 133-143: the fetched document's counter + 1, written back by save()
HttpSaveSub(p) ==
  /\ proc[p].pc = "h_saveSub"
  /\ subs' = [subs EXCEPT ![proc[p].doc].messagesUsedTotal = proc[p].used + 1,
                          ![proc[p].doc].totalMessagesUsed = proc[p].used + 1]
  /\ proc' = [proc EXCEPT ![p].debited = TRUE, ![p].pc = "h_emit"]
  /\ UNCHANGED <<bypass, now, membership, chats, calls, presenceVars>>

\* a live chat-namespace connection of user u exists: its handlers can run
HasChatSocket(u) ==
  \E k \in Sockets : sock[k].state = "live" /\ sock[k].ns = "chat" /\ sock[k].user = u

\* connection k is in a room of the chat namespace
InRoom(k, room) == sock[k].state = "live" /\ sock[k].ns = "chat" /\ room \in sock[k].rooms

\* the new_message events connection k gets from one send: one from the emit
\* to the receiver's personal room (made when onlineUsers has the receiver) and
\* one from the emit to the pair's chat room, which leaves out `except` (the
\* sender's connection for socket.to, 0 for nsp.to)
NewMessagesTo(k, from, to, except) ==
  (IF InOnlineUsers(to) /\ InRoom(k, PersonalRoom(to)) THEN 1 ELSE 0)
  + (IF k # except /\ InRoom(k, ChatRoom(from, to)) THEN 1 ELSE 0)

\* lines 149-189: the real-time emits and the success response (deliveryStatus
\* is 'delivered' when onlineUsers has the receiver)
HttpEmit(p) ==
  /\ proc[p].pc = "h_emit"
  /\ proc' = [proc EXCEPT ![p] =
       [@ EXCEPT !.pc = "done", !.result = "ok",
                 !.emitted = (IF InOnlineUsers(proc[p].to)
                              THEN {"new_message:user", "message_delivered"} ELSE {})
                             \cup {"new_message:room"},
                 !.received = [k \in Sockets |->
                                 NewMessagesTo(k, proc[p].from, proc[p].to, 0)],
                 !.recipientLive = HasChatSocket(proc[p].to)]]
  /\ UNCHANGED <<bypass, now, storeVars, presenceVars>>

\* ------------------------------ socket send_message (sockets/chat.namespace.js)
\* validateBothUsersSubscription of chat.namespace.js: valid && canChat
SockValidateBoth(u1, u2) ==
  IF bypass THEN "valid"
  ELSE IF FindOneSub(u1) = 0 \/ FindOneSub(u2) = 0 THEN "subscription_error"
  ELSE IF SubExpired(FindOneSub(u1)) \/ SubExpired(FindOneSub(u2))
       THEN "subscription_error"
  ELSE "valid"

\* subscription.messagesUsedToday || 0 on a document findOne has just loaded:
\* the Subscription schema has no messagesUsedToday (and no lastMessageDate)
\* path, so neither is ever stored and a loaded document has neither
LoadedUsedToday == 0

\* checkMessageLimit: canSend, or the error type
SockCheckMessageLimit(u) ==
  LET id == FindOneSub(u) IN
  IF bypass THEN "canSend"
  ELSE IF id = 0 THEN "limit_exceeded"
  ELSE IF SubExpired(id) THEN "limit_exceeded"
  ELSE IF subs[id].messagesPerDay = Null THEN "canSend"
  ELSE IF Max(0, subs[id].messagesPerDay - LoadedUsedToday) <= 0 THEN "limit_exceeded"
  ELSE "canSend"

SockError(p, q, r) == [q EXCEPT !.pc = "done", !.result = r, !.emitted = {"error"}]

\* lines 146-161: the event arrives on a live connection k of the sender;
\* payload validation, then validateBothUsersSubscription
SockValidate(p, from, to, valid) ==
  /\ CanStart(p)
  /\ \E k \in Sockets :
       /\ sock[k].state = "live" /\ sock[k].ns = "chat" /\ sock[k].user = from
       /\ LET q == [IdleProc EXCEPT !.kind = "sock", !.from = from, !.to = to, !.sid = k,
                                    !.before = StoredUsed(from)] IN
          proc' = [proc EXCEPT ![p] =
            IF ~valid THEN SockError(p, q, "validation_error")
            ELSE IF SockValidateBoth(from, to) # "valid"
                 THEN SockError(p, q, SockValidateBoth(from, to))
            ELSE [q EXCEPT !.pc = "s_check"]]
  /\ UNCHANGED <<bypass, now, storeVars, presenceVars>>

\* the limit_exceeded branch without its return: the error is emitted and the
\* handler goes on to saveMessageToDB
SockCheckNoReturn(p) ==
  /\ proc[p].pc = "s_check"
  /\ LET r == SockCheckMessageLimit(proc[p].from) IN
     proc' = [proc EXCEPT ![p] =
       IF r # "canSend"
       THEN [@ EXCEPT !.pc = "s_findSub", !.result = r, !.emitted = {"error"}]
       ELSE [@ EXCEPT !.pc = "s_findSub"]]
  /\ UNCHANGED <<bypass, now, storeVars, presenceVars>>

\* lines 163-171: checkMessageLimit (its save() of the reset daily count writes
\* no schema path, so it stores nothing)
SockCheck(p) ==
  /\ proc[p].pc = "s_check"
  /\ LET r == SockCheckMessageLimit(proc[p].from) IN
     proc' = [proc EXCEPT ![p] =
       IF r # "canSend" THEN SockError(p, proc[p], r)
       ELSE [@ EXCEPT !.pc = "s_findSub"]]
  /\ UNCHANGED <<bypass, now, storeVars, presenceVars>>

\* saveMessageToDB line 532: Subscription.findOne({ userId: fromId })
SockFindSub(p) ==
  /\ proc[p].pc = "s_findSub"
  /\ LET id == FindOneSub(proc[p].from) IN
     proc' = [proc EXCEPT ![p] =
       [@ EXCEPT !.doc = id,
                 !.used = IF id = 0 THEN 0 ELSE subs[id].messagesUsedTotal,
                 !.pc = IF id # 0 /\ ~bypass THEN "s_saveSub" ELSE "s_findChat"]]
  /\ UNCHANGED <<bypass, now, storeVars, presenceVars>>

\* saveMessageToDB lines 534-537: the loaded counter + 1, written back by save()
SockSaveSub(p) ==
  /\ proc[p].pc = "s_saveSub"
  /\ subs' = [subs EXCEPT ![proc[p].doc].messagesUsedTotal = proc[p].used + 1,
                          ![proc[p].doc].totalMessagesUsed = proc[p].used + 1]
  /\ proc' = [proc EXCEPT ![p].debited = TRUE, ![p].pc = "s_findChat"]
  /\ UNCHANGED <<bypass, now, membership, chats, calls, presenceVars>>

\* saveMessageToDB line 548: Chat.findOne
SockFindChat(p) ==
  /\ proc[p].pc = "s_findChat"
  /\ LET c == FindChat(proc[p].from, proc[p].to) IN
     proc' = [proc EXCEPT ![p].chat = c,
                          ![p].pc = IF c = 0 THEN "s_createChat" ELSE "s_saveChat"]
  /\ UNCHANGED <<bypass, now, storeVars, presenceVars>>

\* saveMessageToDB line 556: Chat.create
SockCreateChat(p) ==
  /\ proc[p].pc = "s_createChat"
  /\ chats' = Append(chats, NewChat(proc[p].from, proc[p].to))
  /\ proc' = [proc EXCEPT ![p].chat = Len(chats) + 1, ![p].pc = "s_saveChat"]
  /\ UNCHANGED <<bypass, now, subs, membership, calls, presenceVars>>

\* saveMessageToDB lines 565-590 and the handler's lines 180-183: push and save
\* the chat; a failed save is caught, saveMessageToDB returns success: false and
\* the handler emits the db_error
\* the failure of saveMessageToDB without the handler's return: the handler
\* goes on to its emits
SockSaveChatNoReturn(p, ok) ==
  /\ proc[p].pc = "s_saveChat"
  /\ IF ok
     THEN /\ chats' = PushMessage(proc[p].chat,
                        NewMessage(p))
          /\ proc' = [proc EXCEPT ![p].persisted = TRUE, ![p].pc = "s_emit"]
     ELSE /\ chats' = chats
          /\ proc' = [proc EXCEPT ![p].pc = "s_emit"]
  /\ UNCHANGED <<bypass, now, subs, membership, calls, presenceVars>>

\* lines 565-590 and 178-183: push + save; a failure ends the handler with db_error
SockSaveChat(p, ok) ==
  /\ proc[p].pc = "s_saveChat"
  /\ IF ok
     THEN /\ chats' = PushMessage(proc[p].chat,
                        NewMessage(p))
          /\ proc' = [proc EXCEPT ![p].persisted = TRUE, ![p].pc = "s_emit"]
     ELSE /\ chats' = chats
          /\ proc' = [proc EXCEPT ![p] = SockError(p, proc[p], "db_error")]
  /\ UNCHANGED <<bypass, now, subs, membership, calls, presenceVars>>

\* lines 185-219: message_sent to the sender, new_message to the receiver
SockEmit(p) ==
  /\ proc[p].pc = "s_emit"
  /\ proc' = [proc EXCEPT ![p] =
       [@ EXCEPT !.pc = "done", !.result = "ok",
                 !.emitted = (IF InOnlineUsers(proc[p].to)
                              THEN {"new_message:user", "message_delivered"} ELSE {})
                             \cup {"message_sent", "new_message:room"},
                 !.received = [k \in Sockets |->
                                 NewMessagesTo(k, proc[p].from, proc[p].to, proc[p].sid)],
                 !.recipientLive = HasChatSocket(proc[p].to)]]
  /\ UNCHANGED <<bypass, now, storeVars, presenceVars>>

\* ------------------------------------------- call usage (usage.controller.js)
\* getActiveSubscription: Subscription.findOne({ userId, endDate: { $gt: now } })
\* the lookup without its endDate condition
ActiveSubsOfAnyDate(u) == {i \in SubIds : subs[i].userId = u}

ActiveSubsOf(u) == {i \in SubsOf(u) : subs[i].endDate > now}

GetActiveSubscription(u) ==
  IF ActiveSubsOf(u) = {} THEN 0
  ELSE CHOOSE i \in ActiveSubsOf(u) : \A j \in ActiveSubsOf(u) : i <= j

\* sub.audioTimeAllowed ?? 0 / sub.videoTimeAllowed ?? 0
CallAllowed(id, type) ==
  LET a == IF type = "audio" THEN subs[id].audioTimeAllowed ELSE subs[id].videoTimeAllowed
  IN  IF a = Null THEN 0 ELSE a

CallUsed(id, type) ==
  IF type = "audio" THEN subs[id].audioTimeUsedTotal ELSE subs[id].videoTimeUsedTotal

\* remaining of ensureCallQuota and of generateToken
CallRemaining(id, type) == Max(0, CallAllowed(id, type) - CallUsed(id, type))

\* ensureCallQuota: "ok" or the denial code
EnsureCallQuota(u, type) ==
  LET id == GetActiveSubscription(u) IN
  IF id = 0 THEN "NO_SUBSCRIPTION"
  ELSE IF CallRemaining(id, type) <= 0
       THEN (IF type = "audio" THEN "AUDIO_LIMIT_REACHED" ELSE "VIDEO_LIMIT_REACHED")
  ELSE "ok"

\* startCallUsage: POST /api/usage/call/start { type }
StartCallUsage(p, u, type) ==
  /\ CanStart(p)
  /\ LET q == [IdleProc EXCEPT !.kind = "start", !.from = u, !.ctype = type, !.pc = "done"] IN
     proc' = [proc EXCEPT ![p] =
       IF type \notin CallTypes THEN [q EXCEPT !.result = "400"]
       ELSE IF EnsureCallQuota(u, type) # "ok"
            THEN [q EXCEPT !.result = EnsureCallQuota(u, type), !.remainingSec = 0]
       ELSE [q EXCEPT !.result = "ok",
                      !.remainingSec = CallRemaining(GetActiveSubscription(u), type)]]
  /\ UNCHANGED <<bypass, now, storeVars, presenceVars>>

\* a debit that stops at the allowance
IncCallUsageCapped(sub, type, secs) ==
  IF type = "audio"
  THEN [sub EXCEPT !.audioTimeUsedTotal = IF @ + secs > sub.audioTimeAllowed
                                          THEN Max(@, sub.audioTimeAllowed) ELSE @ + secs,
                   !.totalAudioUsed = @ + secs]
  ELSE [sub EXCEPT !.videoTimeUsedTotal = IF @ + secs > sub.videoTimeAllowed
                                          THEN Max(@, sub.videoTimeAllowed) ELSE @ + secs,
                   !.totalVideoUsed = @ + secs]

\* $inc of the usage counter of a call type and of its legacy twin
IncCallUsage(sub, type, secs) ==
  IF type = "audio"
  THEN [sub EXCEPT !.audioTimeUsedTotal = @ + secs, !.totalAudioUsed = @ + secs]
  ELSE [sub EXCEPT !.videoTimeUsedTotal = @ + secs, !.totalVideoUsed = @ + secs]

\* the elapsed time rounded to the nearest second instead of floored
ProcessedSecsRounded(halves) == Max(0, (halves + 1) \div 2)

\* Math.max(0, Math.floor(Number(elapsedSec || 0))), elapsedSec given in halves
\* of a second
ProcessedSecs(halves) == Max(0, halves \div 2)

\* stopCallUsage: POST /api/usage/call/stop { type, elapsedSec }: one
\* findOneAndUpdate({ userId }, { $inc }) when the processed seconds are > 0
StopCallUsage(p, u, type, halves) ==
  /\ CanStart(p)
  /\ LET q == [IdleProc EXCEPT !.kind = "stop", !.from = u, !.ctype = type, !.pc = "done",
                               !.secs = ProcessedSecs(halves)]
         id == FindOneSub(u)
     IN  IF type \notin CallTypes
         THEN /\ proc' = [proc EXCEPT ![p] = [q EXCEPT !.result = "400", !.secs = 0]]
              /\ subs' = subs
         ELSE /\ proc' = [proc EXCEPT ![p] = [q EXCEPT !.result = "ok"]]
              /\ subs' = IF ProcessedSecs(halves) > 0 /\ id # 0
                         THEN [subs EXCEPT ![id] = IncCallUsage(@, type, ProcessedSecs(halves))]
                         ELSE subs
  /\ UNCHANGED <<bypass, now, membership, chats, calls, presenceVars>>

\* ------------------------------------- call token (zegoController.generateToken)
\* the Call document of a room (its id stands for the document's _id); type
\* "none": no document
NoCall == [type |-> "none", participants |-> {}, tokenHistory |-> {},
           status |-> "none", actualDuration |-> 0]

\* lines 21-42: the subscription lookup and the remaining time of the call type
\* (any callType but 'audio' is checked as video)
TokenCheck(u, callType) ==
  LET id == FindOneSub(u) IN
  IF id = 0 THEN "NO_SUBSCRIPTION"
  ELSE IF SubExpired(id) THEN "NO_SUBSCRIPTION"
  ELSE IF callType = "audio" /\ CallRemaining(id, "audio") <= 0 THEN "AUDIO_LIMIT"
  ELSE IF callType # "audio" /\ CallRemaining(id, "video") <= 0 THEN "VIDEO_LIMIT"
  ELSE "ok"

\* GET /api/zego/token, lines 17-42
GenerateToken(p, u, callType, roomId) ==
  /\ CanStart(p)
  /\ LET q == [IdleProc EXCEPT !.kind = "token", !.from = u, !.ctype = callType,
                               !.room = roomId] IN
     proc' = [proc EXCEPT ![p] =
       IF TokenCheck(u, callType) # "ok"
       THEN [q EXCEPT !.pc = "done", !.result = TokenCheck(u, callType)]
       ELSE [q EXCEPT !.pc = "t_upsert"]]
  /\ UNCHANGED <<bypass, now, storeVars, presenceVars>>

\* lines 44-101: upsert the room's Call with this participant ($setOnInsert the
\* type, $addToSet the participant), then answer with the token
TokenUpsert(p) ==
  /\ proc[p].pc = "t_upsert"
  /\ LET r == proc[p].room IN
     calls' = IF r = NoRoom THEN calls
              ELSE [calls EXCEPT ![r] =
                     [type |-> IF @.type = "none"
                               THEN (IF proc[p].ctype = "audio" THEN "audio" ELSE "video")
                               ELSE @.type,
                      participants |-> @.participants \cup {proc[p].from},
                      tokenHistory |-> @.tokenHistory,
                      status |-> IF @.type = "none" THEN "initiated" ELSE @.status,
                      actualDuration |-> @.actualDuration]]
  /\ proc' = [proc EXCEPT ![p] = Finish(p, "ok")]
  /\ UNCHANGED <<bypass, now, subs, membership, chats, presenceVars>>

\* --------------------------- room token (zegoController.generateRoomToken)
\* POST /api/zego/room-token { roomId, callId }: lines 119-158. The subscription
\* is not looked up; with a callId the caller must be a participant of the call
GenerateRoomToken(p, u, roomId, callId) ==
  /\ CanStart(p)
  /\ LET q == [IdleProc EXCEPT !.kind = "roomtoken", !.from = u, !.room = roomId,
                               !.call = callId] IN
     proc' = [proc EXCEPT ![p] =
       IF roomId = NoRoom THEN [q EXCEPT !.pc = "done", !.result = "400"]
       ELSE IF callId = NoRoom THEN [q EXCEPT !.pc = "done", !.result = "ok"]
       ELSE IF calls[callId].type = "none" THEN [q EXCEPT !.pc = "done", !.result = "404"]
       ELSE IF u \notin calls[callId].participants
            THEN [q EXCEPT !.pc = "done", !.result = "403"]
       ELSE [q EXCEPT !.pc = "rt_update"]]
  /\ UNCHANGED <<bypass, now, storeVars, presenceVars>>

\* lines 160-186: the token is recorded in the call's tokenHistory, then sent
RoomTokenUpdate(p) ==
  /\ proc[p].pc = "rt_update"
  /\ calls' = [calls EXCEPT ![proc[p].call].tokenHistory = @ \cup {proc[p].from}]
  /\ proc' = [proc EXCEPT ![p] = Finish(p, "ok")]
  /\ UNCHANGED <<bypass, now, subs, membership, chats, presenceVars>>

\* ------------------- room_session_end callback (zegoController.handleCallback)
\* POST /api/zego/callback { event: room_session_end, room_id, duration }:
\* lines 266-295 and 407-418. Without a signature the answer is 401; else the
\* room's Call is marked ended (no upsert)
RoomSessionEnd(p, roomId, duration, signed) ==
  /\ CanStart(p)
  /\ LET q == [IdleProc EXCEPT !.kind = "session_end", !.room = roomId]
         known == roomId # NoRoom /\ calls[roomId].type # "none"
         secs == Max(0, duration)
     IN  IF ~signed
         THEN /\ proc' = [proc EXCEPT ![p] = [q EXCEPT !.pc = "done", !.result = "401"]]
              /\ calls' = calls
         ELSE /\ calls' = IF known
                          THEN [calls EXCEPT ![roomId].status = "ended",
                                             ![roomId].actualDuration = duration]
                          ELSE calls
              /\ proc' = [proc EXCEPT ![p] =
                   IF known /\ calls[roomId].participants # {} /\ secs > 0
                   THEN [q EXCEPT !.pc = "rs_update", !.secs = secs,
                                  !.ctype = calls[roomId].type,
                                  !.parts = calls[roomId].participants]
                   ELSE [q EXCEPT !.pc = "done", !.result = "ok"]]
  /\ UNCHANGED <<bypass, now, subs, membership, chats, presenceVars>>

\* an update of the first participant's subscription only
RoomSessionUpdateOne(p) ==
  /\ proc[p].pc = "rs_update"
  /\ LET hit == {i \in SubIds : subs[i].userId \in proc[p].parts} IN
     subs' = [i \in SubIds |->
               IF i \in hit /\ (\A j \in hit : i <= j)
               THEN IncCallUsage(subs[i], proc[p].ctype, proc[p].secs)
               ELSE subs[i]]
  /\ proc' = [proc EXCEPT ![p] = Finish(p, "ok")]
  /\ UNCHANGED <<bypass, now, membership, chats, calls, presenceVars>>

\* lines 420-440: Subscription.updateMany({ userId: { $in: participants } }, { $inc })
RoomSessionUpdate(p) ==
  /\ proc[p].pc = "rs_update"
  /\ subs' = [i \in SubIds |->
               IF subs[i].userId \in proc[p].parts
               THEN IncCallUsage(subs[i], proc[p].ctype, proc[p].secs)
               ELSE subs[i]]
  /\ proc' = [proc EXCEPT ![p] = Finish(p, "ok")]
  /\ UNCHANGED <<bypass, now, membership, chats, calls, presenceVars>>

\* ------------------- subscribing (subscription.controller.js, payment controller)
\* the plans a user can buy: limits.totalMessagesAllowed, totalAudioTimeSeconds
\* and totalVideoTimeSeconds (Null: the plan leaves the limit unspecified)
Plans == {[id |-> 1, totalMessagesAllowed |-> Null, totalAudioTimeSeconds |-> Null,
           totalVideoTimeSeconds |-> Null],
          [id |-> 2, totalMessagesAllowed |-> MaxAllowed, totalAudioTimeSeconds |-> MaxSeconds,
           totalVideoTimeSeconds |-> MaxSeconds]}
PlanOf(n) == CHOOSE pl \in Plans : pl.id = n

\* plan.durationDays, in ms: a new subscription outlasts the run
PlanDurationMs == MaxNow + TickMs

\* Subscription.findByIdAndDelete(id): no document with that id is a no-op
DeleteSub(id) == IF id = 0 THEN subs ELSE [subs EXCEPT ![id] = NoSub]

\* the _id a created document gets: a free one (0: the store of the model is full)
FreeSubId ==
  IF \A i \in SubIds : subs[i].userId # NoUser THEN 0
  ELSE CHOOSE i \in SubIds : subs[i].userId = NoUser /\ \A j \in SubIds : subs[j].userId = NoUser => i <= j

\* createOrReplaceSubscription, line 368: User.findById(userId); called by
\* subscribePlan and verifyPayment
SubscribeFindUser(p, u, pl) ==
  /\ CanStart(p)
  /\ proc' = [proc EXCEPT ![p] =
       [IdleProc EXCEPT !.kind = "subscribe", !.from = u, !.plan = pl.id,
                        !.membership = membership[u],
                        !.pc = IF membership[u] # 0 THEN "c_deleteOld" ELSE "c_findExisting"]]
  /\ UNCHANGED <<bypass, now, storeVars, presenceVars>>

\* lines 372-374: Subscription.findByIdAndDelete(user.membership)
SubscribeDeleteOld(p) ==
  /\ proc[p].pc = "c_deleteOld"
  /\ subs' = DeleteSub(proc[p].membership)
  /\ proc' = [proc EXCEPT ![p].pc = "c_findExisting"]
  /\ UNCHANGED <<bypass, now, membership, chats, calls, presenceVars>>

\* line 375: Subscription.findOne({ userId, endDate: { $gt: new Date() } })
SubscribeFindExisting(p) ==
  /\ proc[p].pc = "c_findExisting"
  /\ proc' = [proc EXCEPT ![p].existing = GetActiveSubscription(proc[p].from),
                          ![p].pc = IF GetActiveSubscription(proc[p].from) # 0
                                    THEN "c_deleteExisting" ELSE "c_create"]
  /\ UNCHANGED <<bypass, now, storeVars, presenceVars>>

\* lines 376-378: Subscription.findByIdAndDelete(existing._id)
SubscribeDeleteExisting(p) ==
  /\ proc[p].pc = "c_deleteExisting"
  /\ subs' = DeleteSub(proc[p].existing)
  /\ proc' = [proc EXCEPT ![p].pc = "c_create"]
  /\ UNCHANGED <<bypass, now, membership, chats, calls, presenceVars>>

\* lines 380-404: Subscription.create with the plan's limits, every counter 0
SubscribeCreate(p) ==
  /\ proc[p].pc = "c_create"
  /\ FreeSubId # 0
  /\ LET pl == PlanOf(proc[p].plan)
         audio == IF pl.totalAudioTimeSeconds = Null THEN 0 ELSE pl.totalAudioTimeSeconds
         video == IF pl.totalVideoTimeSeconds = Null THEN 0 ELSE pl.totalVideoTimeSeconds
     IN  subs' = [subs EXCEPT ![FreeSubId] =
                    NewSub(proc[p].from, now + PlanDurationMs, pl.totalMessagesAllowed,
                           Null, audio, video)]
  /\ proc' = [proc EXCEPT ![p].doc = FreeSubId, ![p].pc = "c_saveUser"]
  /\ UNCHANGED <<bypass, now, membership, chats, calls, presenceVars>>

\* lines 406-409: user.membership = subscription._id; user.save()
SubscribeSaveUser(p) ==
  /\ proc[p].pc = "c_saveUser"
  /\ membership' = [membership EXCEPT ![proc[p].from] = proc[p].doc]
  /\ proc' = [proc EXCEPT ![p] = Finish(p, "ok")]
  /\ UNCHANGED <<bypass, now, subs, chats, calls, presenceVars>>

\* getMySubscription, lines 470-474: User.findById; without a membership the
\* answer is subscription: null
GetMySubscription(p, u) ==
  /\ CanStart(p)
  /\ proc' = [proc EXCEPT ![p] =
       [IdleProc EXCEPT !.kind = "mysub", !.from = u, !.membership = membership[u],
                        !.pc = IF membership[u] = 0 THEN "done" ELSE "g_findSub",
                        !.result = IF membership[u] = 0 THEN "null" ELSE "none"]]
  /\ UNCHANGED <<bypass, now, storeVars, presenceVars>>

\* lines 477-499: Subscription.findById(user.membership); a missing or expired
\* one resets the membership (the document stays)
GetMySubscriptionFind(p) ==
  /\ proc[p].pc = "g_findSub"
  /\ LET id == proc[p].membership
         gone == subs[id].userId = NoUser \/ now > subs[id].endDate
     IN  proc' = [proc EXCEPT ![p] = IF gone THEN [proc[p] EXCEPT !.pc = "g_saveUser"]
                                      ELSE Finish(p, "ok")]
  /\ UNCHANGED <<bypass, now, storeVars, presenceVars>>

\* lines 480-483: user.membership = null; user.save()
GetMySubscriptionReset(p) ==
  /\ proc[p].pc = "g_saveUser"
  /\ membership' = [membership EXCEPT ![proc[p].from] = 0]
  /\ proc' = [proc EXCEPT ![p] = Finish(p, "null")]
  /\ UNCHANGED <<bypass, now, subs, chats, calls, presenceVars>>

\* ------------------------------------------------------------------ clock
\* a timer that is due fires before the clock moves on
Tick ==
  /\ now + TickMs <= MaxNow
  /\ \A t \in timers : t.due > now
  /\ now' = now + TickMs
  /\ UNCHANGED <<bypass, storeVars, proc, presenceVars>>

\* ------------------------------------------------- the messaging system
\* the plans' limits Init draws from
MsgLimits == {Null} \cup (0..MaxAllowed)
SecLimits == 0..MaxSeconds

NoEntry == [present |-> FALSE, isOnline |-> FALSE, socketId |-> 0]
NoRooms == [present |-> FALSE, rooms |-> {}]
NewSock == [state |-> "new", ns |-> "none", user |-> NoUser, openedAt |-> 0, closedAt |-> 0,
            rooms |-> {}]

\* every user holds one live chat connection, opened before the run
AllConnected ==
  /\ sock = [k \in Sockets |->
       IF k <= Len(UserSeq)
       THEN [NewSock EXCEPT !.state = "live", !.ns = "chat", !.user = UserSeq[k],
                            !.rooms = {PersonalRoom(UserSeq[k])}]
       ELSE NewSock]
  /\ onlineUsers = [u \in Users |->
       [present |-> TRUE, isOnline |-> TRUE,
        socketId |-> CHOOSE k \in 1..Len(UserSeq) : UserSeq[k] = u]]
  /\ userRooms = [u \in Users |-> [present |-> TRUE, rooms |-> {}]]
  /\ timers = {}
  /\ pOnline = {}
  /\ pSockets = [u \in Users |-> {}]
  /\ bcast = {}

\* each user has no subscription document or a fresh one
Init ==
  /\ bypass \in BOOLEAN
  /\ now = MaxNow - TickMs
  /\ subs \in [SubIds -> {NoSub} \cup
                {NewSub(u, e, m, d, 0, 0) :
                   u \in Users, e \in {0, MaxNow - TickMs}, m \in MsgLimits, d \in MsgLimits}]
  /\ \A i \in SubIds : subs[i].userId \in {NoUser, UserSeq[i]}
  /\ chats = <<>>
  /\ calls = [r \in Rooms |-> NoCall]
  /\ proc = [p \in Procs |-> IdleProc]
  /\ AllConnected
  /\ membership = [u \in Users |-> FindOneSub(u)]

Next ==
  \/ \E p \in Procs, from \in Users, valid \in BOOLEAN :
       \E to \in Users \ {from} : HttpValidate(p, from, to, valid)
  \/ \E p \in Procs : HttpFetch(p)
  \/ \E p \in Procs : HttpFindChat(p)
  \/ \E p \in Procs : HttpCreateChat(p)
  \/ \E p \in Procs, ok \in BOOLEAN : HttpSaveChat(p, ok)
  \/ \E p \in Procs : HttpSaveSub(p)
  \/ \E p \in Procs : HttpEmit(p)
  \/ \E p \in Procs, from \in Users, valid \in BOOLEAN :
       \E to \in Users \ {from} : SockValidate(p, from, to, valid)
  \/ \E p \in Procs : SockCheck(p)
  \/ \E p \in Procs : SockFindSub(p)
  \/ \E p \in Procs : SockSaveSub(p)
  \/ \E p \in Procs : SockFindChat(p)
  \/ \E p \in Procs : SockCreateChat(p)
  \/ \E p \in Procs, ok \in BOOLEAN : SockSaveChat(p, ok)
  \/ \E p \in Procs : SockEmit(p)
  \/ Tick

Spec == Init /\ [][Next]_vars

\* ----------------------------------------------- sends with the bypass off
\* NumProcs sends of u1 to u2 run; u1's subscription takes every shape (its
\* plan's messagesPerDay is unset, 0 or positive), u2's is absent, expired or
\* unlimited
InitGate ==
  /\ bypass = FALSE
  /\ now = MaxNow - TickMs
  /\ subs \in [SubIds -> {NoSub} \cup
                {NewSub(u, e, m, d, 0, 0) :
                   u \in Users, e \in {0, MaxNow - TickMs}, m \in MsgLimits,
                   d \in {Null, 0, MaxAllowed}}]
  /\ \A i \in SubIds : subs[i].userId \in {NoUser, UserSeq[i]}
  /\ subs[2] \in {NoSub} \cup {NewSub("u2", e, Null, Null, 0, 0) :
                                 e \in {0, MaxNow - TickMs}}
  /\ chats = <<>>
  /\ calls = [r \in Rooms |-> NoCall]
  /\ proc = [p \in Procs |-> IdleProc]
  /\ AllConnected
  /\ membership = [u \in Users |-> FindOneSub(u)]

NextGate ==
  \/ \E p \in Procs, valid \in BOOLEAN : HttpValidate(p, UserSeq[1], UserSeq[2], valid)
  \/ \E p \in Procs : HttpFetch(p)
  \/ \E p \in Procs : HttpFindChat(p)
  \/ \E p \in Procs : HttpCreateChat(p)
  \/ \E p \in Procs, ok \in BOOLEAN : HttpSaveChat(p, ok)
  \/ \E p \in Procs : HttpSaveSub(p)
  \/ \E p \in Procs : HttpEmit(p)
  \/ \E p \in Procs, valid \in BOOLEAN : SockValidate(p, UserSeq[1], UserSeq[2], valid)
  \/ \E p \in Procs : SockCheck(p)
  \/ \E p \in Procs : SockFindSub(p)
  \/ \E p \in Procs : SockSaveSub(p)
  \/ \E p \in Procs : SockFindChat(p)
  \/ \E p \in Procs : SockCreateChat(p)
  \/ \E p \in Procs, ok \in BOOLEAN : SockSaveChat(p, ok)
  \/ \E p \in Procs : SockEmit(p)
  \/ Tick

SpecGate == InitGate /\ [][NextGate]_vars

\* --------------------------------- the four checks and the room token, bypass off
\* one request or event runs; a room's Call document is absent or has u1 as its
\* participant
InitCalls ==
  /\ bypass = FALSE
  /\ now = MaxNow - TickMs
  /\ subs \in [SubIds -> {NoSub} \cup
                {NewSub(u, e, m, d, a, v) :
                   u \in Users, e \in {0, MaxNow - TickMs}, m \in MsgLimits,
                   d \in MsgLimits, a \in SecLimits, v \in SecLimits}]
  /\ \A i \in SubIds : subs[i].userId \in {NoUser, UserSeq[i]}
  /\ subs[2] \in {NoSub} \cup {NewSub("u2", e, Null, Null, MaxSeconds, MaxSeconds) :
                                 e \in {0, MaxNow - TickMs}}
  /\ chats = <<>>
  /\ calls \in [Rooms -> {NoCall, [NoCall EXCEPT !.type = "video", !.status = "initiated",
                                                  !.participants = {"u1"}]}]
  /\ proc = [p \in Procs |-> IF p = 1 THEN IdleProc ELSE OffProc]
  /\ AllConnected
  /\ membership = [u \in Users |-> FindOneSub(u)]

NextCalls ==
  \/ Next
  \/ \E p \in Procs, u \in Users, type \in CallTypes \cup {"other"} :
       StartCallUsage(p, u, type)
  \/ \E p \in Procs, u \in Users, type \in CallTypes, r \in Rooms \cup {NoRoom} :
       GenerateToken(p, u, type, r)
  \/ \E p \in Procs : TokenUpsert(p)
  \/ \E p \in Procs, u \in Users, r \in Rooms \cup {NoRoom}, c \in Rooms \cup {NoRoom} :
       GenerateRoomToken(p, u, r, c)
  \/ \E p \in Procs : RoomTokenUpdate(p)

SpecCalls == InitCalls /\ [][NextCalls]_vars

\* ----------------------------------------------------- call usage, bypass off
\* the elapsedSec a stop reports, in halves of a second: -1, -0.5, 0, ... ,
\* MaxSeconds + 1; the durations a room_session_end reports, in seconds
ElapsedHalves == (0 - 2)..(2 * MaxSeconds + 2)
Durations == (0 - 1)..(MaxSeconds + 1)

\* u1 makes the start and stop requests: its subscription is absent, ends now
\* or ends later, with any call allowances; u2's ends later with full
\* allowances; the room's Call is absent, an audio call of u1 or a video call
\* of both
InitUsage ==
  /\ bypass = FALSE
  /\ now = MaxNow - TickMs
  /\ subs \in [SubIds -> {NoSub} \cup
                {NewSub(u, e, Null, Null, a, v) :
                   u \in Users, e \in {MaxNow - TickMs, MaxNow},
                   a \in SecLimits, v \in SecLimits}]
  /\ \A i \in SubIds : subs[i].userId \in {NoUser, UserSeq[i]}
  /\ subs[2] = NewSub("u2", MaxNow, Null, Null, MaxSeconds, MaxSeconds)
  /\ chats = <<>>
  /\ calls \in [Rooms -> {NoCall,
                          [NoCall EXCEPT !.type = "audio", !.status = "initiated",
                                         !.participants = {UserSeq[1]}],
                          [NoCall EXCEPT !.type = "video", !.status = "initiated",
                                         !.participants = Users]}]
  /\ proc = [p \in Procs |-> IdleProc]
  /\ AllConnected
  /\ membership = [u \in Users |-> FindOneSub(u)]

NextUsage ==
  \/ \E p \in Procs, type \in CallTypes \cup {"other"} :
       StartCallUsage(p, UserSeq[1], type)
  \/ \E p \in Procs, type \in CallTypes \cup {"other"}, h \in ElapsedHalves :
       StopCallUsage(p, UserSeq[1], type, h)
  \/ \E p \in Procs, r \in Rooms \cup {NoRoom}, d \in Durations, signed \in BOOLEAN :
       RoomSessionEnd(p, r, d, signed)
  \/ \E p \in Procs : RoomSessionUpdate(p)
  \/ Tick

SpecUsage == InitUsage /\ [][NextUsage]_vars

\* ------------------------------- presence of the chat namespace (connections)
\* socket ids are handed out in order, each used for one connection
CanOpen(k) ==
  /\ sock[k].state = "new"
  /\ IF k = 1 THEN TRUE ELSE sock[k - 1].state # "new"

\* a chat connection joins its user's personal room (line 84)
Opened(k, n, u) ==
  [state |-> "live", ns |-> n, user |-> u, openedAt |-> now, closedAt |-> 0,
   rooms |-> IF n = "chat" THEN {PersonalRoom(u)} ELSE {}]

Broadcast(e, n, u) == bcast \cup {[ev |-> e, ns |-> n, user |-> u, at |-> now]}

\* nsp.on("connection"): the entry is overwritten by the newest connection
ChatConnect(k, u) ==
  /\ CanOpen(k)
  /\ sock' = [sock EXCEPT ![k] = Opened(k, "chat", u)]
  /\ onlineUsers' = [onlineUsers EXCEPT
                       ![u] = [present |-> TRUE, isOnline |-> TRUE, socketId |-> k]]
  /\ userRooms' = IF userRooms[u].present THEN userRooms
                  ELSE [userRooms EXCEPT ![u] = [present |-> TRUE, rooms |-> {}]]
  /\ bcast' = Broadcast("user_online", "chat", u)
  /\ UNCHANGED <<bypass, now, storeVars, proc, timers, pOnline, pSockets>>

\* socket.on("disconnect"): user_offline goes out at once and a 30 s timer is
\* armed; no other connection of the user is looked at
ChatDisconnect(k) ==
  /\ sock[k].state = "live"
  /\ sock[k].ns = "chat"
  /\ sock' = [sock EXCEPT ![k].state = "closed", ![k].closedAt = now, ![k].rooms = {}]
  /\ LET u == sock[k].user IN
       IF onlineUsers[u].present
       THEN /\ onlineUsers' = [onlineUsers EXCEPT ![u].isOnline = FALSE]
            /\ bcast' = Broadcast("user_offline", "chat", u)
            /\ timers' = timers \cup {[user |-> u, due |-> now + GraceMs]}
       ELSE UNCHANGED <<onlineUsers, bcast, timers>>
  /\ UNCHANGED <<bypass, now, storeVars, proc, userRooms, pOnline, pSockets>>

\* the setTimeout callback of the disconnect handler
GraceTimerFire(t) ==
  /\ t \in timers
  /\ t.due <= now
  /\ timers' = timers \ {t}
  /\ onlineUsers' = [onlineUsers EXCEPT ![t.user] = NoEntry]
  /\ userRooms' = [userRooms EXCEPT ![t.user] = NoRooms]
  /\ UNCHANGED <<bypass, now, storeVars, proc, sock, pOnline, pSockets, bcast>>

\* ------------------------------------- presence namespace (PresenceNamespace)
\* handleConnection: addUserOnline, then the broadcast of user_online
PresenceConnect(k, u) ==
  /\ CanOpen(k)
  /\ sock' = [sock EXCEPT ![k] = Opened(k, "presence", u)]
  /\ pSockets' = [pSockets EXCEPT ![u] = @ \cup {k}]
  /\ pOnline' = pOnline \cup {u}
  /\ bcast' = Broadcast("user_online", "presence", u)
  /\ UNCHANGED <<bypass, now, storeVars, proc, onlineUsers, userRooms, timers>>

\* a handleDisconnection that takes the user offline at every close
PresenceDisconnectEach(k) ==
  /\ sock[k].state = "live"
  /\ sock[k].ns = "presence"
  /\ sock' = [sock EXCEPT ![k].state = "closed", ![k].closedAt = now]
  /\ LET u == sock[k].user
         rest == pSockets[u] \ {k}
     IN  IF pSockets[u] # {}
         THEN /\ pSockets' = [pSockets EXCEPT ![u] = rest]
              /\ IF u \in pOnline
                 THEN /\ pOnline' = pOnline \ {u}
                      /\ bcast' = Broadcast("user_offline", "presence", u)
                 ELSE UNCHANGED <<pOnline, bcast>>
         ELSE UNCHANGED <<pSockets, pOnline, bcast>>
  /\ UNCHANGED <<bypass, now, storeVars, proc, onlineUsers, userRooms, timers>>

\* handleDisconnection: the user goes offline when its last socket closes
PresenceDisconnect(k) ==
  /\ sock[k].state = "live"
  /\ sock[k].ns = "presence"
  /\ sock' = [sock EXCEPT ![k].state = "closed", ![k].closedAt = now]
  /\ LET u == sock[k].user
         rest == pSockets[u] \ {k}
     IN  IF pSockets[u] # {}
         THEN /\ pSockets' = [pSockets EXCEPT ![u] = rest]
              /\ IF rest = {} /\ u \in pOnline
                 THEN /\ pOnline' = pOnline \ {u}
                      /\ bcast' = Broadcast("user_offline", "presence", u)
                 ELSE UNCHANGED <<pOnline, bcast>>
         ELSE UNCHANGED <<pSockets, pOnline, bcast>>
  /\ UNCHANGED <<bypass, now, storeVars, proc, onlineUsers, userRooms, timers>>

\* ------------------------------------------------------ the presence system
\* nobody is connected and the clock is at its start
InitPresence ==
  /\ bypass = FALSE
  /\ now = 0
  /\ subs = [i \in SubIds |-> NoSub]
  /\ chats = <<>>
  /\ calls = [r \in Rooms |-> NoCall]
  /\ proc = [p \in Procs |-> OffProc]
  /\ sock = [k \in Sockets |-> NewSock]
  /\ onlineUsers = [u \in Users |-> NoEntry]
  /\ userRooms = [u \in Users |-> NoRooms]
  /\ timers = {}
  /\ pOnline = {}
  /\ pSockets = [u \in Users |-> {}]
  /\ bcast = {}
  /\ membership = [u \in Users |-> FindOneSub(u)]

NextPresence ==
  \/ \E k \in Sockets, u \in Users : ChatConnect(k, u)
  \/ \E k \in Sockets : ChatDisconnect(k)
  \/ \E t \in timers : GraceTimerFire(t)
  \/ \E k \in Sockets, u \in Users : PresenceConnect(k, u)
  \/ \E k \in Sockets : PresenceDisconnect(k)
  \/ Tick

SpecPresence == InitPresence /\ [][NextPresence]_vars

\* the presence namespace alone: its connections open and close as time passes
NextPresenceNamespace ==
  \/ \E k \in Sockets, u \in Users : PresenceConnect(k, u)
  \/ \E k \in Sockets : PresenceDisconnect(k)
  \/ Tick

SpecPresenceNamespace == InitPresence /\ [][NextPresenceNamespace]_vars

\* ------------------------------------------ call:invite (chat.namespace.js)
\* lines 277-312: the event arrives on a live connection k of the caller; the
\* target counts as online when onlineUsers has an entry for it
CallInvite(p, k, receiverId, callType, roomId) ==
  /\ CanStart(p)
  /\ sock[k].state = "live"
  /\ sock[k].ns = "chat"
  /\ proc' = [proc EXCEPT ![p] =
       [IdleProc EXCEPT !.kind = "invite", !.pc = "done", !.from = sock[k].user,
                        !.to = receiverId, !.sid = k, !.ctype = callType, !.room = roomId,
                        !.result = IF InOnlineUsers(receiverId) THEN "sent" ELSE "failed",
                        !.emitted = IF InOnlineUsers(receiverId)
                                    THEN {"call:incoming", "call:invitation_sent"}
                                    ELSE {"call:invitation_failed"}]]
  /\ UNCHANGED <<bypass, now, storeVars, presenceVars>>

\* connections of the chat namespace come and go and call invitations are sent
\* (nobody is connected at the start, one invitation is sent in a run)
InitInvite ==
  /\ bypass = FALSE
  /\ now = 0
  /\ subs = [i \in SubIds |-> NoSub]
  /\ chats = <<>>
  /\ calls = [r \in Rooms |-> NoCall]
  /\ proc = [p \in Procs |-> IF p = 1 THEN IdleProc ELSE OffProc]
  /\ sock = [k \in Sockets |-> NewSock]
  /\ onlineUsers = [u \in Users |-> NoEntry]
  /\ userRooms = [u \in Users |-> NoRooms]
  /\ timers = {}
  /\ pOnline = {}
  /\ pSockets = [u \in Users |-> {}]
  /\ bcast = {}
  /\ membership = [u \in Users |-> FindOneSub(u)]

NextInvite ==
  \/ \E k \in Sockets, u \in Users : ChatConnect(k, u)
  \/ \E k \in Sockets : ChatDisconnect(k)
  \/ \E t \in timers : GraceTimerFire(t)
  \/ \E p \in Procs, k \in Sockets, u \in Users, type \in CallTypes, r \in Rooms :
       CallInvite(p, k, u, type, r)
  \/ Tick

SpecInvite == InitInvite /\ [][NextInvite]_vars

\* ------------------------------------------- join_chat (chat.namespace.js)
\* lines 87-103: the event arrives on a live connection k; the payload is
\* validated, then validateBothUsersSubscription is awaited
JoinChatValidate(p, k, receiverId) ==
  /\ CanStart(p)
  /\ sock[k].state = "live"
  /\ sock[k].ns = "chat"
  /\ LET u == sock[k].user
         q == [IdleProc EXCEPT !.kind = "join", !.from = u, !.to = receiverId, !.sid = k] IN
     proc' = [proc EXCEPT ![p] =
       IF receiverId = NoUser THEN SockError(p, q, "join_error")
       ELSE IF SockValidateBoth(u, receiverId) # "valid"
            THEN SockError(p, q, "subscription_error")
       ELSE [q EXCEPT !.pc = "j_join"]]
  /\ UNCHANGED <<bypass, now, storeVars, presenceVars>>

\* lines 105-137: socket.join(roomId) (a closed connection joins nothing), the
\* room is added to the user's set in userRooms, chat_joined goes to the socket
JoinChatJoin(p) ==
  /\ proc[p].pc = "j_join"
  /\ LET k == proc[p].sid
         u == proc[p].from
         roomId == ChatRoom(u, proc[p].to)
     IN  /\ sock' = IF sock[k].state = "live"
                    THEN [sock EXCEPT ![k].rooms = @ \cup {roomId}]
                    ELSE sock
         /\ userRooms' = [userRooms EXCEPT ![u] =
                            [present |-> TRUE,
                             rooms |-> (IF userRooms[u].present THEN userRooms[u].rooms ELSE {})
                                       \cup {roomId}]]
  /\ proc' = [proc EXCEPT ![p] = [Finish(p, "ok") EXCEPT !.emitted = {"chat_joined"}]]
  /\ UNCHANGED <<bypass, now, storeVars, onlineUsers, timers, pOnline, pSockets, bcast>>

\* ---------------------------------------------- delivery of sent messages
\* u1 and u2 hold unlimited subscriptions that outlast the run and one chat
\* connection each (u2's is connection 2); u1 sends to u2 over the socket and
\* over HTTP while u2's connection joins the chat room or closes; the clock
\* has one grace period left
InitDeliver ==
  /\ bypass = FALSE
  /\ now = MaxNow - GraceMs
  /\ subs = [i \in SubIds |-> NewSub(UserSeq[i], MaxNow, Null, Null, 0, 0)]
  /\ chats = <<>>
  /\ calls = [r \in Rooms |-> NoCall]
  /\ proc = [p \in Procs |-> IdleProc]
  /\ AllConnected
  /\ membership = [u \in Users |-> FindOneSub(u)]

NextDeliver ==
  \/ \E p \in Procs : HttpValidate(p, UserSeq[1], UserSeq[2], TRUE)
  \/ \E p \in Procs : HttpFetch(p)
  \/ \E p \in Procs : HttpFindChat(p)
  \/ \E p \in Procs : HttpCreateChat(p)
  \/ \E p \in Procs : HttpSaveChat(p, TRUE)
  \/ \E p \in Procs : HttpSaveSub(p)
  \/ \E p \in Procs : HttpEmit(p)
  \/ \E p \in Procs : SockValidate(p, UserSeq[1], UserSeq[2], TRUE)
  \/ \E p \in Procs : SockCheck(p)
  \/ \E p \in Procs : SockFindSub(p)
  \/ \E p \in Procs : SockSaveSub(p)
  \/ \E p \in Procs : SockFindChat(p)
  \/ \E p \in Procs : SockCreateChat(p)
  \/ \E p \in Procs : SockSaveChat(p, TRUE)
  \/ \E p \in Procs : SockEmit(p)
  \/ \E p \in Procs : JoinChatValidate(p, 2, UserSeq[1])
  \/ \E p \in Procs : JoinChatJoin(p)
  \/ ChatDisconnect(2)
  \/ \E t \in timers : GraceTimerFire(t)
  \/ Tick

SpecDeliver == InitDeliver /\ [][NextDeliver]_vars

\* ------------------------------ authentication of the chat namespace (nsp.use)
\* what a connection attempt presents: no token, a token jwt.verify rejects, a
\* token whose id is no user's, a token of a user whose status is not Active,
\* a token of an Active user
Credentials == {"missing", "invalid", "no_user", "inactive", "ok"}

\* a middleware that does not look at the user's status
ChatAuthAnyStatus(cred) ==
  IF cred = "missing" THEN "Authentication token required"
  ELSE IF cred = "invalid" THEN "Authentication failed"
  ELSE IF cred = "no_user" THEN "Invalid user or inactive account"
  ELSE "next"

\* lines 17-39: next() or next(new Error(...))
ChatAuth(cred) ==
  IF cred = "missing" THEN "Authentication token required"
  ELSE IF cred = "invalid" THEN "Authentication failed"
  ELSE IF cred \in {"no_user", "inactive"} THEN "Invalid user or inactive account"
  ELSE "next"

\* a connection attempt of u on the chat namespace: the middleware, and after
\* next() the connection handler; an error closes the connection, which never
\* gets a userId or a handler
ChatOpen(k, u, cred) ==
  IF ChatAuth(cred) = "next"
  THEN ChatConnect(k, u)
  ELSE /\ CanOpen(k)
       /\ sock' = [sock EXCEPT ![k] = [NewSock EXCEPT !.state = "rejected", !.ns = "chat",
                                                       !.closedAt = now]]
       /\ UNCHANGED <<bypass, now, storeVars, proc, onlineUsers, userRooms, timers,
                      pOnline, pSockets, bcast>>

\* connection attempts with every kind of credential, disconnections and call
\* invitations, within one grace period (nobody is connected at the start)
NextAuth ==
  \/ \E k \in Sockets, u \in Users, cred \in Credentials : ChatOpen(k, u, cred)
  \/ \E k \in Sockets : ChatDisconnect(k)
  \/ \E p \in Procs, k \in Sockets, u \in Users, type \in CallTypes, r \in Rooms :
       CallInvite(p, k, u, type, r)

SpecAuth == InitInvite /\ [][NextAuth]_vars

\* ------------------------------------------ history (chat.controller.getMessages)
\* GET messages of the conversation with `other`, as `reader`: the first Chat of
\* the pair, its messages in array order, without those the reader cleared
GetMessages(reader, other) ==
  LET i == FindChat(reader, other) IN
  IF other = NoUser THEN [status |-> "400", messages |-> <<>>]
  ELSE IF i = 0 THEN [status |-> "404", messages |-> <<>>]
  ELSE LET clearedAt == chats[i].clearedAt[reader]
           Kept(m) == clearedAt = Null \/ m.createdAt > clearedAt
       IN  [status |-> "200", messages |-> SelectSeq(chats[i].messages, Kept)]

\* ------------------------------- clearing (chat.controller.clearChatHistory)
\* lines 279-299: DELETE of the conversation with `other`, as `u`: the first
\* Chat of the pair is looked up
ClearFind(p, u, other) ==
  /\ CanStart(p)
  /\ LET q == [IdleProc EXCEPT !.kind = "clear", !.from = u, !.to = other,
                               !.chat = FindChat(u, other)] IN
     proc' = [proc EXCEPT ![p] =
       IF other = NoUser THEN [q EXCEPT !.pc = "done", !.result = "400", !.chat = 0]
       ELSE IF FindChat(u, other) = 0 THEN [q EXCEPT !.pc = "done", !.result = "404"]
       ELSE [q EXCEPT !.pc = "cl_save"]]
  /\ UNCHANGED <<bypass, now, storeVars, presenceVars>>

\* a save that writes the clear time for both users of the conversation
ClearSaveBoth(p) ==
  /\ proc[p].pc = "cl_save"
  /\ chats' = [chats EXCEPT ![proc[p].chat].clearedAt = [u \in Users |-> now]]
  /\ proc' = [proc EXCEPT ![p] = [Finish(p, "ok") EXCEPT !.at = now]]
  /\ UNCHANGED <<bypass, now, subs, membership, calls, presenceVars>>

\* lines 301-304: chat.clearedAt.set(userId, new Date()); chat.save(): a $set of
\* the user's key of the Map on the stored document
ClearSave(p) ==
  /\ proc[p].pc = "cl_save"
  /\ chats' = [chats EXCEPT ![proc[p].chat].clearedAt[proc[p].from] = now]
  /\ proc' = [proc EXCEPT ![p] = [Finish(p, "ok") EXCEPT !.at = now]]
  /\ UNCHANGED <<bypass, now, subs, membership, calls, presenceVars>>

\* u1 and u2 hold unlimited subscriptions that outlast the run; they have no
\* conversation yet or one with an earlier message of u2 (its id 0 is no
\* invocation's); u1 sends to u2 over HTTP and both clear the conversation
InitClear ==
  /\ bypass = FALSE
  /\ now = MaxNow - TickMs
  /\ subs = [i \in SubIds |-> NewSub(UserSeq[i], MaxNow, Null, Null, 0, 0)]
  /\ chats \in {<<>>,
                <<[NewChat(UserSeq[2], UserSeq[1]) EXCEPT !.messages =
                     <<[from |-> UserSeq[2], to |-> UserSeq[1], id |-> 0,
                        createdAt |-> 0]>>]>>}
  /\ calls = [r \in Rooms |-> NoCall]
  /\ proc = [p \in Procs |-> IdleProc]
  /\ AllConnected
  /\ membership = [u \in Users |-> FindOneSub(u)]

NextClear ==
  \/ \E p \in Procs : HttpValidate(p, UserSeq[1], UserSeq[2], TRUE)
  \/ \E p \in Procs : HttpFetch(p)
  \/ \E p \in Procs : HttpFindChat(p)
  \/ \E p \in Procs : HttpCreateChat(p)
  \/ \E p \in Procs : HttpSaveChat(p, TRUE)
  \/ \E p \in Procs : HttpSaveSub(p)
  \/ \E p \in Procs : HttpEmit(p)
  \/ \E p \in Procs, u \in Users : \E other \in (Users \ {u}) \cup {NoUser} : ClearFind(p, u, other)
  \/ \E p \in Procs : ClearSave(p)
  \/ Tick

SpecClear == InitClear /\ [][NextClear]_vars

\* --------------------------------------------- sends to an offline recipient
\* u1 holds a chat connection, u2 has none; both hold a subscription that has
\* not expired, u1's with any allowance
InitHistory ==
  /\ bypass = FALSE
  /\ now = MaxNow - TickMs
  /\ subs \in [SubIds -> {NewSub(u, MaxNow, m, Null, 0, 0) : u \in Users, m \in MsgLimits}]
  /\ \A i \in SubIds : subs[i].userId = UserSeq[i]
  /\ subs[2].messagesAllowed = Null
  /\ chats = <<>>
  /\ calls = [r \in Rooms |-> NoCall]
  /\ proc = [p \in Procs |-> IdleProc]
  /\ sock = [k \in Sockets |->
       IF k = 1 THEN [NewSock EXCEPT !.state = "live", !.ns = "chat", !.user = UserSeq[1],
                                     !.rooms = {PersonalRoom(UserSeq[1])}]
       ELSE NewSock]
  /\ onlineUsers = [u \in Users |->
       IF u = UserSeq[1] THEN [present |-> TRUE, isOnline |-> TRUE, socketId |-> 1]
       ELSE NoEntry]
  /\ userRooms = [u \in Users |->
       IF u = UserSeq[1] THEN [present |-> TRUE, rooms |-> {}] ELSE NoRooms]
  /\ timers = {}
  /\ pOnline = {}
  /\ pSockets = [u \in Users |-> {}]
  /\ bcast = {}
  /\ membership = [u \in Users |-> FindOneSub(u)]

SpecHistory == InitHistory /\ [][NextGate]_vars

\* ===================================================================== claims
IsSend(p) == proc[p].kind \in {"http", "sock"}
Succeeded(p) == IsSend(p) /\ proc[p].pc = "done" /\ proc[p].result = "ok"
Quiescent == \A p \in Procs : proc[p].pc \in {"idle", "off", "done"}
OthersIdle(p) == \A q \in Procs \ {p} : proc[q].pc \in {"idle", "off"}
\* the invocations whose message is stored in some Chat document
MessageIds ==
  UNION {{chats[i].messages[j].id : j \in 1..Len(chats[i].messages)} : i \in 1..Len(chats)}

\* C1: with the checks not bypassed and messagesAllowed = N (not null), a
\* sender's messagesUsedTotal never exceeds N, whatever sends were made over
\* HTTP and over the socket.
C1_UsedNeverExceedsAllowed ==
  ~bypass =>
    \A i \in SubIds :
      (subs[i].userId # NoUser /\ subs[i].messagesAllowed # Null)
        => subs[i].messagesUsedTotal <= subs[i].messagesAllowed

\* C2: of two or more concurrent sends of one sender (all started while the
\* counter stood at the same value b, with messagesAllowed = N), no more than
\* the remaining N - b succeed; with one unit remaining, two simultaneous sends
\* do not both succeed.
C2_ConcurrentSendsWithinQuota ==
  ~bypass =>
    \A u \in Users, b \in 0..NumProcs :
      LET id == FindOneSub(u)
          S == {p \in Procs : Succeeded(p) /\ proc[p].from = u /\ proc[p].before = b}
      IN (id # 0 /\ Cardinality(S) >= 2 /\ subs[id].messagesAllowed # Null)
           => Cardinality(S) <= Max(0, subs[id].messagesAllowed - b)

\* C3: the read-modify-write of the counter is serialized: once every send has
\* finished, and none of them failed to persist, a sender's messagesUsedTotal
\* (0 at the start) is exactly the number of its sends that succeeded.
C3_NoLostIncrement ==
  (~bypass /\ Quiescent /\ \A p \in Procs : proc[p].result \notin {"db_error", "500"})
    => \A u \in Users :
         FindOneSub(u) # 0 =>
           subs[FindOneSub(u)].messagesUsedTotal =
             Cardinality({p \in Procs : Succeeded(p) /\ proc[p].from = u})

\* C5: a socket send whose message failed to persist after the counter was
\* incremented leaves the sender's messagesUsedTotal at its value before the send
\* (no other send running).
C5_RefundOnPersistFailure ==
  \A p \in Procs :
    (proc[p].kind = "sock" /\ proc[p].result = "db_error" /\ OthersIdle(p))
      => StoredUsed(proc[p].from) = proc[p].before

\* C7: from the same subscription state of sender and recipient, HTTP
\* sendMessage and socket send_message make the same grant/deny decision.
HttpGrants(from, to) ==
  HttpValidateBoth(from, to) = "valid" /\ HttpQuotaCheck(from) = "ok"

SockGrants(from, to) ==
  SockValidateBoth(from, to) = "valid" /\ SockCheckMessageLimit(from) = "canSend"

C7_SameDecision ==
  \A from \in Users : \A to \in Users \ {from} :
    HttpGrants(from, to) <=> SockGrants(from, to)

\* C4: with the bypass off, no check lets a user through who has no active
\* subscription (no document, or every endDate earlier than now), whatever
\* allowance the documents hold: HTTP sendMessage, socket send_message,
\* startCallUsage and the call-token requests all refuse.
NoActiveSubscription(u) == \A i \in SubIds : subs[i].userId = u => subs[i].endDate < now

\* invocation p passes one of its subscription / quota checks in this step, or
\* is handed a call token
PassesCheck(p) ==
  \/ proc[p].pc = "idle" /\ proc'[p].pc \in {"h_fetch", "s_check", "t_upsert", "rt_update"}
  \/ proc[p].pc = "idle" /\ proc'[p].kind \in {"start", "roomtoken"} /\ proc'[p].result = "ok"
  \/ proc[p].pc = "h_fetch" /\ proc'[p].pc = "h_findChat"
  \/ proc[p].pc = "s_check" /\ proc'[p].pc = "s_findSub"

C4_FailClosed ==
  [][~bypass => \A p \in Procs : PassesCheck(p) => ~NoActiveSubscription(proc'[p].from)]_vars

\* C6: a send the quota check denied has stopped with an error: its message is
\* in no conversation, it made no debit (alone, the counter is where it was)
\* and it emitted no message_sent and no new_message.
QuotaDenials == {"NO_SUBSCRIPTION", "SUBSCRIPTION_EXPIRED", "MESSAGE_LIMIT_EXCEEDED",
                 "limit_exceeded"}

C6_DeniedSendHasNoEffect ==
  \A p \in Procs :
    (IsSend(p) /\ proc[p].result \in QuotaDenials)
      => /\ proc[p].pc = "done"
         /\ ~proc[p].persisted /\ p \notin MessageIds
         /\ ~proc[p].debited
         /\ OthersIdle(p) => StoredUsed(proc[p].from) = proc[p].before
         /\ proc[p].emitted \subseteq {"error"}
         /\ proc[p].kind = "sock" => proc[p].emitted = {"error"}

\* a sender with a subscription that has not expired was denied by the limit
\* check of its path
C6_Witness ==
  \E p \in Procs :
    /\ IsSend(p)
    /\ proc[p].result \in {"MESSAGE_LIMIT_EXCEEDED", "limit_exceeded"}
    /\ FindOneSub(proc[p].from) # 0
    /\ ~SubExpired(FindOneSub(proc[p].from))

\* a disconnection k1 of a user followed by a connection k2 of the same user on
\* the same namespace less than the grace period later
Reconnected(k1, k2) ==
  /\ sock[k1].state = "closed"
  /\ sock[k2].state \in {"live", "closed"}
  /\ sock[k1].user = sock[k2].user
  /\ sock[k1].ns = sock[k2].ns
  /\ sock[k2].openedAt > sock[k1].closedAt
  /\ sock[k2].openedAt < sock[k1].closedAt + GraceMs

\* C8: a user who disconnects and reconnects within the 30 s grace window never
\* causes a user_offline broadcast, on the chat namespace and on the presence
\* namespace: no user_offline about the user is emitted between the
\* disconnection and the reconnection
C8_NoOfflineOnReconnect ==
  \A k1 \in Sockets, k2 \in Sockets :
    Reconnected(k1, k2) =>
      ~ \E b \in bcast :
          /\ b.ev = "user_offline"
          /\ b.ns = sock[k1].ns
          /\ b.user = sock[k1].user
          /\ b.at >= sock[k1].closedAt
          /\ b.at <= sock[k2].openedAt

\* C9: a user is in the chat namespace's onlineUsers map if and only if the
\* user has at least one live connection to the chat namespace
C9_OnlineIffLiveConnection ==
  \A u \in Users : InOnlineUsers(u) <=> HasChatSocket(u)

\* C10: the grace timer of a disconnection is cancelled by a reconnection: a
\* user who reconnected before the timer's deadline, and is still connected,
\* is in onlineUsers and has a userRooms entry once the deadline has passed
C10_ReconnectKeepsEntries ==
  \A k1 \in Sockets, k2 \in Sockets :
    ( /\ Reconnected(k1, k2)
      /\ sock[k1].ns = "chat"
      /\ sock[k2].state = "live"
      /\ now >= sock[k1].closedAt + GraceMs
      /\ [user |-> sock[k1].user, due |-> sock[k1].closedAt + GraceMs] \notin timers )
    => /\ InOnlineUsers(sock[k1].user)
       /\ userRooms[sock[k1].user].present

\* the events that deliver or acknowledge a message
MessageEvents == {"message_sent", "new_message:user", "new_message:room", "message_delivered"}

\* send p has delivered or acknowledged its message
Announced(p) ==
  /\ IsSend(p)
  /\ \/ proc[p].emitted \cap MessageEvents # {}
     \/ proc[p].kind = "http" /\ proc[p].result = "ok"

\* C11: write-then-notify: in every step in which a send (HTTP sendMessage or
\* socket send_message) first emits new_message / message_sent or answers
\* success, its message is already stored in the conversation; a send whose
\* persist failed never emits.
C11_PersistBeforeEmit ==
  [][\A p \in Procs :
       (Announced(p)' /\ ~Announced(p)) => (proc[p].persisted /\ p \in MessageIds)]_vars

\* one send was stored and delivered, another failed to persist and emitted no
\* message event
C11_Witness ==
  \E p \in Procs, q \in Procs :
    /\ Succeeded(p) /\ proc[p].persisted /\ "new_message:room" \in proc[p].emitted
    /\ IsSend(q) /\ proc[q].result \in {"db_error", "500"}
    /\ ~proc[q].persisted /\ proc[q].emitted \cap MessageEvents = {}

\* position of the message of invocation p in a fetched history, 0 if absent
PositionOf(p, h) ==
  IF \E j \in 1..Len(h) : h[j].id = p
  THEN CHOOSE j \in 1..Len(h) : h[j].id = p
  ELSE 0

\* C12: sender S sent m1 and then m2 (invocation ids follow the order of the
\* sends) to recipient R while R was offline, and both sends succeeded: the
\* history R fetches lists both, m1 before m2.
C12_HistoryInSendOrder ==
  \A p \in Procs, q \in Procs :
    ( /\ p < q
      /\ Succeeded(p) /\ Succeeded(q)
      /\ proc[p].from = proc[q].from /\ proc[p].to = proc[q].to
      /\ ~HasChatSocket(proc[p].to) /\ ~InOnlineUsers(proc[p].to) )
    => LET h == GetMessages(proc[p].to, proc[p].from).messages IN
       /\ PositionOf(p, h) > 0
       /\ PositionOf(p, h) < PositionOf(q, h)

\* socket send p has begun the debit / persist steps of saveMessageToDB
InSaveMessage(p) ==
  \/ proc[p].pc \in {"s_saveSub", "s_findChat", "s_createChat", "s_saveChat", "s_emit"}
  \/ proc[p].debited
  \/ proc[p].persisted

\* C13: the events of one connection are handled one at a time in arrival
\* order: when a socket emitted send_message m1 and then m2 (invocation ids
\* follow the arrival order), the handler of m2 is in its debit / persist steps
\* only after the handler of m1 has finished.
C13_OneEventAtATime ==
  \A p \in Procs, q \in Procs :
    ( /\ p < q
      /\ proc[p].kind = "sock" /\ proc[q].kind = "sock"
      /\ proc[p].sid = proc[q].sid
      /\ InSaveMessage(q) )
    => proc[p].pc = "done"

\* C14: a call:invite whose target has no live connection to the chat
\* namespace, also when the target's last connection closed less than 30 s
\* ago, emits call:invitation_failed to the caller and neither call:incoming
\* nor call:invitation_sent.
C14_InviteToOfflineFails ==
  [][\A p \in Procs :
       (proc[p].pc = "idle" /\ proc'[p].kind = "invite" /\ ~HasChatSocket(proc'[p].to))
         => proc'[p].emitted = {"call:invitation_failed"}]_vars

\* invocation p is a startCallUsage / stopCallUsage request handled in this step
Handles(p, kind) == proc[p].pc = "idle" /\ proc'[p].kind = kind

\* C15: startCallUsage for a valid call type grants, with remainingSec =
\* allowed - used, exactly when the user has an active subscription (now <
\* endDate) whose allowed - used for that type is > 0; otherwise it denies
\* with NO_SUBSCRIPTION (no active subscription) or the type's LIMIT_REACHED
\* code, and remainingSec 0.
C15_StartGrantsIffQuota ==
  [][\A p \in Procs :
       (Handles(p, "start") /\ proc'[p].ctype \in CallTypes) =>
         LET u == proc'[p].from
             t == proc'[p].ctype
             active == {i \in SubIds : subs[i].userId = u /\ now < subs[i].endDate}
             Left(i) == IF t = "audio"
                        THEN subs[i].audioTimeAllowed - subs[i].audioTimeUsedTotal
                        ELSE subs[i].videoTimeAllowed - subs[i].videoTimeUsedTotal
         IN  IF \E i \in active : Left(i) > 0
             THEN /\ proc'[p].result = "ok"
                  /\ \E i \in active : proc'[p].remainingSec = Left(i)
             ELSE /\ proc'[p].remainingSec = 0
                  /\ proc'[p].result =
                       IF active = {} THEN "NO_SUBSCRIPTION"
                       ELSE IF t = "audio" THEN "AUDIO_LIMIT_REACHED"
                       ELSE "VIDEO_LIMIT_REACHED"]_vars

\* one start was granted with seconds left, one denied for the type's limit and
\* one for a subscription that ended
C15_Witness ==
  \E p \in Procs, q \in Procs :
    /\ proc[p].kind = "start" /\ proc[p].result = "ok" /\ proc[p].remainingSec > 0
    /\ proc[q].kind = "start"
    /\ proc[q].result \in {"AUDIO_LIMIT_REACHED", "VIDEO_LIMIT_REACHED", "NO_SUBSCRIPTION"}
    /\ FindOneSub(proc[q].from) # 0

\* ------------------------------------------------ subscribing and call usage
\* u1 subscribes, asks for its subscription and reports calls. At the start u1
\* has no subscription, or one that createOrReplaceSubscription made from the
\* limited plan: still running with the membership pointing at it, or expired
\* with the membership pointing at it or reset by getMySubscription
InitSubscribe ==
  /\ bypass = FALSE
  /\ now = TickMs
  /\ subs \in [SubIds -> {NoSub} \cup
                {NewSub(UserSeq[1], e, MaxAllowed, Null, MaxSeconds, MaxSeconds) :
                   e \in {0, MaxNow + TickMs}}]
  /\ \A i \in SubIds : i # 1 => subs[i] = NoSub
  /\ membership \in [Users -> {0, 1}]
  /\ membership[UserSeq[2]] = 0
  /\ membership[UserSeq[1]] = 1 => subs[1].userId # NoUser
  /\ membership[UserSeq[1]] = 0 => subs[1].endDate < now
  /\ chats = <<>>
  /\ calls = [r \in Rooms |-> NoCall]
  /\ proc = [p \in Procs |-> IdleProc]
  /\ AllConnected

NextSubscribe ==
  \/ \E p \in Procs, pl \in Plans : SubscribeFindUser(p, UserSeq[1], pl)
  \/ \E p \in Procs : SubscribeDeleteOld(p)
  \/ \E p \in Procs : SubscribeFindExisting(p)
  \/ \E p \in Procs : SubscribeDeleteExisting(p)
  \/ \E p \in Procs : SubscribeCreate(p)
  \/ \E p \in Procs : SubscribeSaveUser(p)
  \/ \E p \in Procs : GetMySubscription(p, UserSeq[1])
  \/ \E p \in Procs : GetMySubscriptionFind(p)
  \/ \E p \in Procs : GetMySubscriptionReset(p)
  \/ \E p \in Procs, type \in CallTypes : StartCallUsage(p, UserSeq[1], type)
  \/ \E p \in Procs, type \in CallTypes : StopCallUsage(p, UserSeq[1], type, 2 * MaxSeconds)
  \/ Tick

SpecSubscribe == InitSubscribe /\ [][NextSubscribe]_vars

\* ------------------------------------------ calls of generateRoomId
\* one call of generateRoomId(userId1, userId2): the ids and the result are kept
RoomIdCall(p, userId1, userId2) ==
  /\ CanStart(p)
  /\ proc' = [proc EXCEPT ![p] = [IdleProc EXCEPT !.kind = "room", !.pc = "done",
                                   !.from = userId1, !.to = userId2,
                                   !.room = generateRoomId(userId1, userId2),
                                   !.result = "ok"]]
  /\ UNCHANGED <<bypass, now, storeVars, presenceVars>>

\* generateRoomId is called once with any two ids
InitRoom ==
  /\ bypass = FALSE
  /\ now = 0
  /\ subs = [i \in SubIds |-> NoSub]
  /\ chats = <<>>
  /\ calls = [r \in Rooms |-> NoCall]
  /\ proc = [p \in Procs |-> IF p = 1 THEN IdleProc ELSE OffProc]
  /\ AllConnected
  /\ membership = [u \in Users |-> FindOneSub(u)]

NextRoom == \E p \in Procs, userId1 \in Ids, userId2 \in Ids : RoomIdCall(p, userId1, userId2)

SpecRoom == InitRoom /\ [][NextRoom]_vars

\* the counter of a call type on a stored subscription
UsedOf(sub, type) ==
  IF type = "audio" THEN sub.audioTimeUsedTotal ELSE sub.videoTimeUsedTotal

OtherType(type) == IF type = "audio" THEN "video" ELSE "audio"

\* floor(e) for e >= 0 given in halves of a second: the n with n <= e < n + 1
FloorOfHalves(h) == CHOOSE n \in 0..(MaxSeconds + 1) : 2 * n <= h /\ h < 2 * n + 2

\* C16: a stopCallUsage step with type t and elapsedSec e adds exactly
\* max(0, floor(e)) to the counter of t on the caller's subscription and leaves
\* the other type's counter, the message counters and every other subscription
\* as they were; with e <= 0 no subscription changes at all
C16_StopAddsFlooredSeconds ==
  [][\A p \in Procs :
       (Handles(p, "stop") /\ proc'[p].ctype \in CallTypes) =>
       \A h \in ElapsedHalves :
       StopCallUsage(p, proc'[p].from, proc'[p].ctype, h) =>
         LET u   == proc'[p].from
             t   == proc'[p].ctype
             id  == FindOneSub(u)
             add == IF h <= 0 THEN 0 ELSE FloorOfHalves(h)
         IN  /\ h <= 0 => subs' = subs
             /\ \A i \in SubIds : i # id => subs'[i] = subs[i]
             /\ id # 0 =>
                  /\ UsedOf(subs'[id], t) = UsedOf(subs[id], t) + add
                  /\ UsedOf(subs'[id], OtherType(t)) = UsedOf(subs[id], OtherType(t))
                  /\ subs'[id].messagesUsedTotal = subs[id].messagesUsedTotal
                  /\ subs'[id].totalMessagesUsed = subs[id].totalMessagesUsed]_vars

\* a stop with a fractional elapsedSec above one second has been debited, and
\* one with a negative elapsedSec has been answered
C16_Witness ==
  \E p \in Procs :
    /\ proc[p].kind = "stop" /\ proc[p].result = "ok" /\ proc[p].secs > 0
    /\ FindOneSub(proc[p].from) # 0
    /\ UsedOf(subs[FindOneSub(proc[p].from)], proc[p].ctype) >= proc[p].secs

\* the caller's subscription is overdrawn for a call type: used > allowed
Overdrawn(u, t) ==
  /\ FindOneSub(u) # 0
  /\ UsedOf(subs[FindOneSub(u)], t) >
       (IF t = "audio" THEN subs[FindOneSub(u)].audioTimeAllowed
                       ELSE subs[FindOneSub(u)].videoTimeAllowed)

\* C17: stopCallUsage debits past the allowance (used' = used + seconds even
\* when that exceeds allowed), and a startCallUsage for a type whose counter
\* has reached or passed the allowance is denied with remainingSec 0
C17_OverdrawThenDenied ==
  [][\A p \in Procs :
       /\ (Handles(p, "stop") /\ proc'[p].ctype \in CallTypes
             /\ FindOneSub(proc'[p].from) # 0) =>
            LET id == FindOneSub(proc'[p].from) IN
            UsedOf(subs'[id], proc'[p].ctype) =
              UsedOf(subs[id], proc'[p].ctype) + proc'[p].secs
       /\ (Handles(p, "start") /\ proc'[p].ctype \in CallTypes
             /\ \E i \in SubIds :
                  /\ subs[i].userId = proc'[p].from
                  /\ UsedOf(subs[i], proc'[p].ctype) >=
                       (IF proc'[p].ctype = "audio" THEN subs[i].audioTimeAllowed
                                                    ELSE subs[i].videoTimeAllowed)) =>
            /\ proc'[p].result \in {"NO_SUBSCRIPTION", "AUDIO_LIMIT_REACHED",
                                    "VIDEO_LIMIT_REACHED"}
            /\ proc'[p].remainingSec = 0]_vars

\* a stop has overdrawn a positive allowance and a later start for that type
\* was denied for the limit
C17_Witness ==
  \E p \in Procs, q \in Procs :
    /\ p < q
    /\ proc[p].kind = "stop" /\ proc[p].result = "ok" /\ proc[p].secs > 0
    /\ proc[q].kind = "start" /\ proc[q].from = proc[p].from
    /\ proc[q].ctype = proc[p].ctype
    /\ proc[q].result \in {"AUDIO_LIMIT_REACHED", "VIDEO_LIMIT_REACHED"}
    /\ Overdrawn(proc[p].from, proc[p].ctype)
    /\ subs[FindOneSub(proc[p].from)].audioTimeAllowed > 0
    /\ subs[FindOneSub(proc[p].from)].videoTimeAllowed > 0

\* C18: a signed room_session_end with duration d > 0 for a room whose Call has
\* participants goes on to the subscription update with d, the Call's type and
\* its participants, and that update adds d to the type's counter of every
\* subscription of a participant and changes no other subscription
C18_SessionEndDebitsParticipants ==
  [][\A p \in Procs :
       /\ Handles(p, "session_end") =>
          \A r \in Rooms, d \in Durations :
            (d > 0 /\ calls[r].type # "none" /\ calls[r].participants # {}
               /\ RoomSessionEnd(p, r, d, TRUE)) =>
              /\ proc'[p].pc = "rs_update" /\ proc'[p].secs = d
              /\ proc'[p].parts = calls[r].participants
              /\ proc'[p].ctype = calls[r].type
       /\ (proc[p].pc = "rs_update" /\ proc'[p].pc = "done") =>
            \A i \in SubIds :
              IF subs[i].userId \in proc[p].parts
              THEN /\ UsedOf(subs'[i], proc[p].ctype) =
                        UsedOf(subs[i], proc[p].ctype) + proc[p].secs
                   /\ UsedOf(subs'[i], OtherType(proc[p].ctype)) =
                        UsedOf(subs[i], OtherType(proc[p].ctype))
                   /\ subs'[i].messagesUsedTotal = subs[i].messagesUsedTotal
              ELSE subs'[i] = subs[i]]_vars

\* a room_session_end of a call of both users has debited both subscriptions
C18_Witness ==
  \E p \in Procs :
    /\ proc[p].kind = "session_end" /\ proc[p].pc = "done" /\ proc[p].result = "ok"
    /\ proc[p].secs > 0 /\ proc[p].parts = Users
    /\ \A i \in SubIds : subs[i].userId \in Users =>
                           UsedOf(subs[i], proc[p].ctype) >= proc[p].secs

\* C19: with the bypass off, on an active subscription (now < endDate) an
\* allowance of null means unlimited and an allowance of 0 means disabled, for
\* messages on both transports and for audio and video seconds: a quota check
\* that runs against a null allowance grants, one against 0 denies.
C19_NullUnlimitedZeroDisabled ==
  [][~bypass =>
     \A p \in Procs :
       /\ (proc[p].pc \in {"h_fetch", "s_check"} /\ proc'[p].pc # proc[p].pc
             /\ FindOneSub(proc[p].from) # 0
             /\ now < subs[FindOneSub(proc[p].from)].endDate) =>
            LET allowed == subs[FindOneSub(proc[p].from)].messagesAllowed
                granted == proc'[p].pc \in {"h_findChat", "s_findSub"}
            IN  /\ allowed = Null => granted
                /\ allowed = 0 => ~granted
       /\ (Handles(p, "start") /\ proc'[p].ctype \in CallTypes
             /\ GetActiveSubscription(proc'[p].from) # 0) =>
            LET id == GetActiveSubscription(proc'[p].from)
                allowed == IF proc'[p].ctype = "audio" THEN subs[id].audioTimeAllowed
                           ELSE subs[id].videoTimeAllowed
            IN  /\ allowed = Null => proc'[p].result = "ok"
                /\ allowed = 0 => proc'[p].result # "ok"]_vars

\* C20: generateRoomId is symmetric: the room id computed for (a, b) is the
\* room id for (b, a), for all id strings a and b
C20_RoomIdSymmetric ==
  \A p \in Procs :
    proc[p].kind = "room" => proc[p].room = generateRoomId(proc[p].to, proc[p].from)

\* a call whose ids are different, non-empty and given in descending order: the
\* sort has swapped them
C20_Witness ==
  \E p \in Procs :
    /\ proc[p].kind = "room"
    /\ proc[p].from # <<>> /\ proc[p].to # <<>>
    /\ StrLess(proc[p].to, proc[p].from)
    /\ proc[p].room = ChatPrefix \o proc[p].to \o Underscore \o proc[p].from

\* the subscriptions of u that end in the future
FutureSubsOf(u) == {i \in SubIds : subs[i].userId = u /\ subs[i].endDate > now}

\* C21: once the calls of createOrReplaceSubscription have returned, however
\* they interleaved, each user has at most one subscription whose endDate is in
\* the future
C21_AtMostOneActiveSubscription ==
  (\A p \in Procs : proc[p].kind = "subscribe" => proc[p].pc = "done")
    => \A u \in Users : Cardinality(FutureSubsOf(u)) <= 1

\* C25: a stopCallUsage of a user who holds an active subscription adds its
\* seconds to that subscription, the one startCallUsage checks
C25_StopDebitsActiveSubscription ==
  [][\A p \in Procs :
       (Handles(p, "stop") /\ proc'[p].ctype \in CallTypes /\ proc'[p].secs > 0
          /\ GetActiveSubscription(proc'[p].from) # 0) =>
         LET id == GetActiveSubscription(proc'[p].from) IN
         UsedOf(subs'[id], proc'[p].ctype) = UsedOf(subs[id], proc'[p].ctype) + proc'[p].secs]_vars

\* C22: whatever the interleaving of the sends between two users, the Chat
\* collection holds at most one document per unordered pair of users
C22_OneThreadPerPair ==
  \A i \in 1..Len(chats) : \A j \in 1..Len(chats) :
    {chats[i].from, chats[i].to} = {chats[j].from, chats[j].to} => i = j

\* the other user of a conversation
OtherUser(u) == CHOOSE v \in Users : v # u

\* the messages of a stored conversation that were created after time t
CreatedAfter(i, t) ==
  LET After(m) == m.createdAt > t IN SelectSeq(chats[i].messages, After)

\* the latest clear time of u among the finished clears
LastClear(u) ==
  LET times == {proc[p].at : p \in {q \in Procs : proc[q].kind = "clear" /\ proc[q].from = u
                                                     /\ proc[q].result = "ok"}}
  IN  IF times = {} THEN Null ELSE CHOOSE t \in times : \A t2 \in times : t >= t2

\* the step that saves A's clear of the conversation with B changes only
\* A's clear time: every stored message and B's clear time are as before, B's
\* fetched history is as before and A's fetched history is now made of the
\* messages created after the clear time
C23_ClearStep ==
  [][\A p \in Procs :
       (proc[p].pc = "cl_save" /\ proc'[p].pc = "done") =>
         LET a == proc[p].from
             b == proc[p].to
             i == proc[p].chat
         IN  /\ Len(chats') = Len(chats)
             /\ \A j \in 1..Len(chats) :
                  /\ chats'[j].messages = chats[j].messages
                  /\ chats'[j].from = chats[j].from /\ chats'[j].to = chats[j].to
                  /\ \A u \in Users : (j # i \/ u # a) =>
                                        chats'[j].clearedAt[u] = chats[j].clearedAt[u]
             /\ chats'[i].clearedAt[a] = now
             /\ GetMessages(b, a)' = GetMessages(b, a)
             /\ GetMessages(a, b)'.status = "200"
             /\ GetMessages(a, b)'.messages = CreatedAfter(i, now)
             /\ subs' = subs]_vars

\* afterwards: in every state a user who has cleared the conversation
\* fetches exactly the messages created after the user's latest clear time,
\* and a user who has never cleared fetches every stored message
C23_HistoryAfterClear ==
  \A u \in Users :
    FindChat(u, OtherUser(u)) # 0 =>
      LET i == FindChat(u, OtherUser(u)) IN
      GetMessages(u, OtherUser(u)).messages =
        (IF LastClear(u) = Null THEN chats[i].messages ELSE CreatedAfter(i, LastClear(u)))

\* C23: clearChatHistory by A on the conversation with B changes only A's
\* clear time (stored messages and B's fetched history unchanged), and from
\* then on A fetches exactly the messages created after A's clear time
C23_ClearChangesOnlyOwnView == C23_ClearStep /\ []C23_HistoryAfterClear

\* u1 has cleared a conversation that holds a message from before the clear
\* and one created after it: u1 fetches the later one only, u2 fetches both
C23_Witness ==
  /\ FindChat(UserSeq[1], UserSeq[2]) # 0
  /\ LastClear(UserSeq[1]) # Null /\ LastClear(UserSeq[2]) = Null
  /\ Len(GetMessages(UserSeq[2], UserSeq[1]).messages) = 2
  /\ Len(GetMessages(UserSeq[1], UserSeq[2]).messages) = 1

\* a rejected connection is no user's entry in onlineUsers and no event was
\* handled on it
RejectedStaysOut ==
  \A k \in Sockets :
    sock[k].state = "rejected" =>
      /\ \A u \in Users : ~(onlineUsers[u].present /\ onlineUsers[u].socketId = k)
      /\ \A p \in Procs : proc[p].sid # k

\* C24: a chat connection attempt whose credential is missing, fails
\* verification or resolves to no Active user is rejected by the middleware:
\* the step adds nothing to onlineUsers or userRooms, broadcasts nothing and
\* arms no timer, and the connection never is an entry of onlineUsers nor the
\* connection of a handled event
C24_RejectedBeforeHandler ==
  /\ [][\A k \in Sockets :
          (sock[k].state = "new" /\ sock'[k].state # "new") =>
            \A u \in Users, cred \in Credentials \ {"ok"} :
              ChatOpen(k, u, cred) =>
                /\ sock'[k].state = "rejected"
                /\ UNCHANGED <<onlineUsers, userRooms, bcast, timers, proc>>]_vars
  /\ []RejectedStaysOut

\* a connection was rejected while another user is connected, and an event of
\* that user has been handled
C24_Witness ==
  \E k \in Sockets, j \in Sockets, p \in Procs :
    /\ sock[k].state = "rejected"
    /\ sock[j].state = "live" /\ j < k
    /\ proc[p].kind = "invite" /\ proc[p].sid = j
    /\ bcast # {}

\* C26: one call is debited once per participant: when the only requests of a
\* run are a participant's stopCallUsage for a call of d seconds and the
\* room_session_end of that call (same type, same d, the user among the
\* participants), the participant's counter, 0 before, stands at d
C26_CallDebitedOnce ==
  \A p \in Procs, q \in Procs :
    ( /\ proc[p].kind = "stop" /\ proc[p].result = "ok" /\ proc[p].secs > 0
      /\ proc[q].kind = "session_end" /\ proc[q].pc = "done" /\ proc[q].result = "ok"
      /\ proc[q].ctype = proc[p].ctype /\ proc[q].secs = proc[p].secs
      /\ proc[p].from \in proc[q].parts
      /\ \A r \in Procs \ {p, q} : proc[r].pc \in {"idle", "off"}
      /\ FindOneSub(proc[p].from) # 0 )
    => UsedOf(subs[FindOneSub(proc[p].from)], proc[p].ctype) = proc[p].secs

\* C27: a sent message produces at most one new_message event on each
\* connection, on both send paths
C27_OneNewMessagePerConnection ==
  \A p \in Procs : IsSend(p) => \A k \in Sockets : proc[p].received[k] <= 1

\* C28: a send reports delivery (message_delivered to the sender, deliveryStatus
\* 'delivered' in the HTTP response) only if the recipient had a live chat
\* connection when the emits were made
C28_DeliveredOnlyIfConnected ==
  \A p \in Procs :
    (IsSend(p) /\ "message_delivered" \in proc[p].emitted) => proc[p].recipientLive

\* the live presence connections of user u
LivePresence(u) ==
  {k \in Sockets : sock[k].state = "live" /\ sock[k].ns = "presence" /\ sock[k].user = u}

OfflineBroadcasts(u) ==
  {b \in bcast : b.ev = "user_offline" /\ b.ns = "presence" /\ b.user = u}

\* the socket set of a user holds its live presence connections, and the user
\* is a key of onlineUsers exactly when that set is not empty
C29_OnlineIffSockets ==
  \A u \in Users :
    /\ pSockets[u] = LivePresence(u)
    /\ (u \in pOnline) <=> (pSockets[u] # {})

\* a step that broadcasts user_offline for u closes a presence connection of
\* u and leaves u without any
C29_OfflineStep ==
  [][\A u \in Users :
       (OfflineBroadcasts(u)' # OfflineBroadcasts(u)) =>
         /\ \E k \in LivePresence(u) : sock'[k].state = "closed"
         /\ LivePresence(u)' = {}
         /\ pSockets'[u] = {}]_vars

\* C29: in PresenceNamespace, after any interleaving of connections and
\* disconnections a user is a key of onlineUsers if and only if userSockets
\* holds a non-empty socket set for it, and user_offline is broadcast for a
\* user only when that user's last presence connection has closed
C29_PresenceMapsAgree == []C29_OnlineIffSockets /\ C29_OfflineStep

\* u1 had two presence connections, both are closed, and only the close of
\* the last one was broadcast
C29_Witness ==
  /\ \A k \in 1..2 : sock[k].state = "closed" /\ sock[k].ns = "presence"
                       /\ sock[k].user = UserSeq[1]
  /\ sock[1].closedAt < sock[2].closedAt
  /\ sock[2].openedAt < sock[1].closedAt
  /\ Cardinality(OfflineBroadcasts(UserSeq[1])) = 1
  /\ UserSeq[1] \notin pOnline

\* C30: with BYPASS_SUBSCRIPTION_CHECKS enabled a send with a recipient and a
\* body is ended by none of the subscription steps, whatever the subscription
\* documents of sender and recipient (a sender without one included), on the
\* HTTP and on the socket path: the first step ends only a send with invalid
\* input, the step that reads the sender's document lets the send go on; and
\* no step changes a usage counter
C30_BypassedSendSucceeds ==
  [][bypass =>
       /\ subs' = subs
       /\ \A p \in Procs :
            /\ (Handles(p, "http") /\ proc'[p].pc = "done") => proc'[p].result = "400"
            /\ (Handles(p, "sock") /\ proc'[p].pc = "done")
                 => proc'[p].result = "validation_error"
            /\ (proc[p].pc = "h_fetch") => (proc'[p].pc # "done")
            /\ (proc[p].pc = "s_check") => (proc'[p].pc # "done")]_vars

====
